---- MODULE Spec2Model ----
(***************************************************************************)
(* A model of the vakthund event pipeline: the SPSC ring bus               *)
(* (vakthund-core/src/events/bus.rs), the simulator                        *)
(* (vakthund-simulator/src/lib.rs) and the runtimes that couple them       *)
(* (vakthund-engine/src/runtime.rs, vakthund-engine/src/engine/runtime.rs).*)
(*                                                                         *)
(* Atomics are modelled sequentially consistent; the bus only relies on    *)
(* the release store / acquire load pairs on head and tail, which SC       *)
(* subsumes.  Events are identified by their sequence number (the          *)
(* timestamp the tests give them).                                         *)
(***************************************************************************)
EXTENDS Integers, Sequences, FiniteSets, TLC

(* ------------------------------ bounds -------------------------------- *)

\* Largest capacity handed to EventBus::with_capacity.
MaxCapacity == 4

\* Number of events the producer of the bus specification offers.
MaxEvents == 3

\* Number of events of a simulator run (event_count).
MaxSimEvents == 2

\* Number of events per run (num_events) or per fuzz iteration of the runtime.
MaxPipeEvents == 2

\* Largest number of fuzz iterations.
MaxIterations == 2

\* the longest scenario, in entries, and the longest hand-written file, in
\* lines
MaxScenarioLen == 3

\* the number of runs whose hash is validated, one after the other
MaxValRuns == 2

\* the longest byte slice enumerated byte by byte
MaxInputLen == 5

\* the number of events on the processor's bus
MaxProcEvents == 2

\* pattern_add calls and buffer_scan calls made on the shared engine
MaxAdds == 3

MaxScans == 2

\* the bytes of patterns an automaton can be built from: the build of a
\* larger pattern set fails
MaxAutomatonBytes == 3

\* the clock's counter is an AtomicU64, which wraps at 2^64; the counter of
\* the model is 30 bits wide, so that the sum of two values of it fits a
\* 32-bit integer, and wraps at 2^30
U64Wrap == 1073741824

\* how many calls each thread makes through its clone of the clock
MaxClockOps == 3

(* ------------------------------ state --------------------------------- *)

VARIABLES
    \* the capacity with_capacity was called with, its result, and the
    \* InnerBus (events/bus.rs:37-42) it built
    requested, new_result, capacity, mask, buffer, head, tail,
    \* the producer task: position in send / send_blocking and its locals
    p_pc, p_kind, p_ev, p_head, p_tail, p_result, next_id,
    \* the consumer task: position in recv and its locals
    c_pc, c_tail, c_head, c_ev, c_result,
    \* history: events accepted by pushes, events returned by pops,
    \* events handed to send_blocking
    accepted, received, blocking_calls,
    \* two standalone simulator runs, one after the other: the parameters
    \* both are constructed with, whether each has a bus attached, the
    \* run in progress, its Simulator, its loop index, and what each run
    \* has returned, pushed and had delivered
    sim_params, sim_bus, run_no, run_pc, sim, sim_i, runs,
    \* a run of the runtime in simulation or fuzz mode: the mode and its
    \* configuration, the Simulator, the producer's position, loop index,
    \* pending event and event_queue, the fuzz iteration and failed count,
    \* whether close() was called, the consumer's and the runtime's
    \* positions, the events simulate_event returned, the events the
    \* consumer processed, and the final hash
    pipe_mode, pipe_cfg, pipe_sim, prod_pc, prod_i, prod_ev, event_queue,
    iteration, failed, closed, cons_pc, rt_pc, emitted, consumed, pipe_hash,
    \* scenarios and replay: a Scenario in memory, the file save_to_file
    \* wrote (or a hand-written one), what load_from_path returned, and a
    \* ReplayEngine (its scenario, position and clock) with the events the
    \* loop driving it was handed and the position of that loop
    scn, file, loaded, rp_scenario, rp_position, rp_clock, rp_yielded, rp_pc,
    \* hash validation at the end of a run: which code path the run takes,
    \* the expected hash it was given (if any), the hash it computed, how
    \* the run returned, the bug reports recorded so far and before this
    \* run, and the number of runs started
    val_mode, val_expected, val_actual, val_result, bug_reports,
    bug_reports_before, val_runs,
    \* one call of a protocol parser: the parser, whether the build checks
    \* integer overflow (debug) or wraps (release), the bytes handed to
    \* it, and what the call did
    pr_parser, pr_checks, pr_input, pr_result,
    \* the event processor task: the payloads still on its bus, the
    \* automaton of its signature engine, whether the build checks
    \* overflow, its position, the payload in hand, the parsers tried on
    \* it so far, the packet of the parser that accepted it, the matches
    \* of its scan, the steps taken for it, and the events finished
    proc_queue, proc_matcher, proc_checks, proc_pc, proc_event, proc_tried,
    proc_packet, proc_matches, proc_trace, proc_done,
    \* a SignatureEngine shared by a thread that adds patterns and a
    \* thread that scans: its patterns and its automaton, the RwLock of
    \* the automaton (writer, readers, and whether a store into it is
    \* under way), every automaton installed so far, the adding thread
    \* (position, pattern, the automaton it built, the engine before the
    \* call, the result, the adds that returned Ok, the calls made) and
    \* the scanning thread (position, buffer, the number of automata
    \* installed when it called, its matches, the scans finished)
    sig_patterns, sig_matcher, mat_writer, mat_readers, mat_torn, installed,
    w_pc, w_pattern, w_built, w_before, w_result, w_added, w_calls,
    s_pc, s_data, s_from, s_result, scan_log,
    \* a VirtualClock and its clones, one per thread: the seed it was
    \* created with, the shared counter, and what each thread has done
    \* through its clone, in order (the delays it advanced by and the
    \* readings now_ns returned to it)
    clk_seed, clk_offset, clk_hist,
    \* a call of generate_fuzz_config: its position, its arguments and the
    \* configuration it returned
    fz_pc, fz_seed, fz_max_events, fz_config,
    \* SimulationRuntime::run_simulation on a DefaultSimulationDriver: its
    \* position, the event_count it was called with, the driver's
    \* max_events, current_event and simulator, the loop index, what each
    \* next_event call returned, the events handed to process_event, and
    \* the value returned
    eng_pc, eng_count, eng_max_events, eng_current, eng_sim, eng_i,
    eng_rets, eng_processed, eng_result,
    \* a SignatureEngine shared by threads that all add patterns: its
    \* patterns and its automaton, the threads holding patterns.read(),
    \* and per thread its position, its pattern and the automaton it
    \* built; the calls that have returned, in order, with their results
    ca_patterns, ca_matcher, ca_readers, ca_pc, ca_pattern, ca_built,
    ca_returned,
    \* a MemoryPool and its users: the capacity, the free list, the
    \* allocated count, the slot index of every live PoolPtr, the number of
    \* calls made, and what the last call was (with the number of live
    \* pointers before it and the slot index it returned, if any)
    pool_capacity, free_indices, allocated_count, live_ptrs, pool_ops,
    pool_last,
    \* a ReplayEngine and its clones, one per task: the scenario, the
    \* shared position, the shared clock, and per task its position in
    \* next_event and the value its fetch_add returned; the calls that have
    \* returned, in order
    cr_scenario, cr_position, cr_clock, cr_pc, cr_pos, cr_log

busVars == <<requested, new_result, capacity, mask, buffer, head, tail,
             p_pc, p_kind, p_ev, p_head, p_tail, p_result, next_id,
             c_pc, c_tail, c_head, c_ev, c_result,
             accepted, received, blocking_calls>>

simVars == <<sim_params, sim_bus, run_no, run_pc, sim, sim_i, runs>>

pipeVars == <<pipe_mode, pipe_cfg, pipe_sim, prod_pc, prod_i, prod_ev,
              event_queue, iteration, failed, closed, cons_pc, rt_pc,
              emitted, consumed, pipe_hash>>

sigVars == <<sig_patterns, sig_matcher, mat_writer, mat_readers, mat_torn,
             installed, w_pc, w_pattern, w_built, w_before, w_result,
             w_added, w_calls, s_pc, s_data, s_from, s_result, scan_log>>

\* the adding thread's and the scanning thread's own variables
adderVars == <<w_pc, w_pattern, w_built, w_before, w_result, w_added,
               w_calls>>

scannerVars == <<s_pc, s_data, s_from, s_result, scan_log>>

procVars == <<proc_queue, proc_matcher, proc_checks, proc_pc, proc_event,
              proc_tried, proc_packet, proc_matches, proc_trace, proc_done>>

parseVars == <<pr_parser, pr_checks, pr_input, pr_result>>

valVars == <<val_mode, val_expected, val_actual, val_result, bug_reports,
             bug_reports_before, val_runs>>

clockVars == <<clk_seed, clk_offset, clk_hist>>

fuzzVars == <<fz_pc, fz_seed, fz_max_events, fz_config>>

engVars == <<eng_pc, eng_count, eng_max_events, eng_current, eng_sim, eng_i,
             eng_rets, eng_processed, eng_result>>

concAddVars == <<ca_patterns, ca_matcher, ca_readers, ca_pc, ca_pattern,
                 ca_built, ca_returned>>

poolVars == <<pool_capacity, free_indices, allocated_count, live_ptrs,
              pool_ops, pool_last>>

concReplayVars == <<cr_scenario, cr_position, cr_clock, cr_pc, cr_pos, cr_log>>

\* the state of the components modelled last
lateVars == <<fuzzVars, engVars, concAddVars, poolVars, concReplayVars>>

replayVars == <<scn, file, loaded, rp_scenario, rp_position, rp_clock,
                rp_yielded, rp_pc>>

\* the state of the components modelled after the bus, the simulator and
\* the runtime's pipeline
extVars == <<replayVars, valVars, parseVars, procVars, sigVars, clockVars,
             lateVars>>

coreVars == <<busVars, simVars, pipeVars>>

\* everything but the scenario and replay state
outsideReplay == <<coreVars, valVars, parseVars, procVars, sigVars,
                   clockVars, lateVars>>

\* everything but the hash validation state
outsideVal == <<coreVars, replayVars, parseVars, procVars, sigVars,
                clockVars, lateVars>>

\* everything but the parser call
outsideParse == <<coreVars, replayVars, valVars, procVars, sigVars,
                  clockVars, lateVars>>

\* everything but the event processor
outsideProc == <<coreVars, replayVars, valVars, parseVars, sigVars,
                 clockVars, lateVars>>

\* everything but the shared signature engine and its two threads
outsideSig == <<coreVars, replayVars, valVars, parseVars, procVars,
                clockVars, lateVars>>

\* everything but the clock shared by two threads
outsideClock == <<coreVars, replayVars, valVars, parseVars, procVars,
                  sigVars, lateVars>>

nonBusVars == <<simVars, pipeVars, extVars>>

\* the ring itself, and the positions and locals of the step-level tasks
ringVars == <<requested, new_result, capacity, mask, buffer, head, tail>>

taskVars == <<p_pc, p_kind, p_ev, p_head, p_tail, p_result, next_id,
              c_pc, c_tail, c_head, c_ev, c_result,
              accepted, received, blocking_calls>>

vars == <<busVars, simVars, pipeVars, extVars>>

(* --------------------------- pure helpers ----------------------------- *)

\* Option<NetworkEvent>: None, and Some(event)
None == <<>>

Some(e) == <<e>>

\* x & y on non-negative integers, bit by bit
RECURSIVE BitAnd(_, _)
BitAnd(x, y) ==
    IF x = 0 \/ y = 0 THEN 0
    ELSE (x % 2) * (y % 2) + 2 * BitAnd(x \div 2, y \div 2)

IsPowerOfTwoMutZero(n) == BitAnd(n, n - 1) = 0

\* usize::is_power_of_two: n != 0 && n & (n - 1) == 0
IsPowerOfTwo(n) == n # 0 /\ BitAnd(n, n - 1) = 0

\* idx = (counter as usize) & self.inner.mask
SlotIndexMutNext(counter) == BitAnd(counter + 1, mask)

SlotIndex(counter) == BitAnd(counter, mask)

\* the full test of send: head - tail >= buffer.len()
IsFullMutGt(h, t) == h - t > capacity

IsFullMutEarly(h, t) == h - t >= capacity - 1

IsFullMutNeverAtOne(h, t) == capacity > 1 /\ h - t >= capacity

IsFull(h, t) == h - t >= capacity

IsEmptyMutOneLeft(h, t) == h - t <= 1

\* the empty test of recv: head == tail
IsEmpty(h, t) == h = t

\* s is a prefix of t
IsPrefixOf(s, t) == Len(s) <= Len(t) /\ s = SubSeq(t, 1, Len(s))

(* ------------------------------ Init ---------------------------------- *)

\* EventBus::with_capacity(n): InvalidCapacity unless n is a power of two,
\* else n empty slots, head = tail = 0, mask = n - 1.
WithCapacity(n) ==
    IF ~IsPowerOfTwo(n)
    THEN [requested |-> n, result |-> "InvalidCapacity", capacity |-> 0,
          mask |-> 0, buffer |-> <<>>, head |-> 0, tail |-> 0]
    ELSE [requested |-> n, result |-> "Ok", capacity |-> n, mask |-> n - 1,
          buffer |-> [i \in 0..(n - 1) |-> None], head |-> 0, tail |-> 0]

\* the bus variables hold the bus b
BusIs(b) ==
    /\ requested = b.requested
    /\ new_result = b.result
    /\ capacity = b.capacity
    /\ mask = b.mask
    /\ buffer = b.buffer
    /\ head = b.head
    /\ tail = b.tail

\* no call of send, send_blocking or recv is in progress
TasksIdle ==
    /\ p_pc = "idle"
    /\ p_kind = "send"
    /\ p_ev = 0
    /\ p_head = 0
    /\ p_tail = 0
    /\ p_result = "none"
    /\ next_id = 1
    /\ c_pc = "idle"
    /\ c_tail = 0
    /\ c_head = 0
    /\ c_ev = None
    /\ c_result = None
    /\ accepted = <<>>
    /\ received = <<>>
    /\ blocking_calls = <<>>

BusInit ==
    /\ \E n \in 0..MaxCapacity : BusIs(WithCapacity(n))
    /\ TasksIdle

\* no simulator run is set up
SimIdle ==
    /\ sim_params = <<>>
    /\ sim_bus = <<>>
    /\ run_no = 0
    /\ run_pc = "none"
    /\ sim = <<>>
    /\ sim_i = 0
    /\ runs = <<>>

\* no runtime is set up
PipeIdle ==
    /\ pipe_mode = "none"
    /\ pipe_cfg = <<>>
    /\ pipe_sim = <<>>
    /\ prod_pc = "none"
    /\ prod_i = 0
    /\ prod_ev = None
    /\ event_queue = <<>>
    /\ iteration = 0
    /\ failed = 0
    /\ closed = FALSE
    /\ cons_pc = "none"
    /\ rt_pc = "none"
    /\ emitted = <<>>
    /\ consumed = <<>>
    /\ pipe_hash = None

\* no scenario exists and no replay is set up
ReplayIdle ==
    /\ scn = <<>>
    /\ file = None
    /\ loaded = None
    /\ rp_scenario = <<>>
    /\ rp_position = 0
    /\ rp_clock = 0
    /\ rp_yielded = <<>>
    /\ rp_pc = "none"

\* no run has reached hash validation
ValIdle ==
    /\ val_mode = "none"
    /\ val_expected = None
    /\ val_actual = <<>>
    /\ val_result = "none"
    /\ bug_reports = 0
    /\ bug_reports_before = 0
    /\ val_runs = 0

\* no parser has been called
ParseIdle ==
    /\ pr_parser = "none"
    /\ pr_checks = FALSE
    /\ pr_input = <<>>
    /\ pr_result = <<>>

\* no event processor is running
ProcIdle ==
    /\ proc_queue = <<>>
    /\ proc_matcher = None
    /\ proc_checks = FALSE
    /\ proc_pc = "none"
    /\ proc_event = None
    /\ proc_tried = 0
    /\ proc_packet = None
    /\ proc_matches = {}
    /\ proc_trace = <<>>
    /\ proc_done = <<>>

\* SignatureEngine::new(), and no thread using it
SigIdle ==
    /\ sig_patterns = <<>>
    /\ sig_matcher = None
    /\ mat_writer = FALSE
    /\ mat_readers = 0
    /\ mat_torn = FALSE
    /\ installed = <<None>>
    /\ w_pc = "none"
    /\ w_pattern = <<>>
    /\ w_built = None
    /\ w_before = <<>>
    /\ w_result = "none"
    /\ w_added = <<>>
    /\ w_calls = 0
    /\ s_pc = "none"
    /\ s_data = <<>>
    /\ s_from = 0
    /\ s_result = {}
    /\ scan_log = <<>>

\* no VirtualClock handed to threads
ClockIdle ==
    /\ clk_seed = 0
    /\ clk_offset = 0
    /\ clk_hist = <<>>

\* generate_fuzz_config not called
FuzzIdle ==
    /\ fz_pc = "idle"
    /\ fz_seed = 0
    /\ fz_max_events = 0
    /\ fz_config = <<>>

\* run_simulation not called
EngIdle ==
    /\ eng_pc = "none"
    /\ eng_count = 0
    /\ eng_max_events = 0
    /\ eng_current = 0
    /\ eng_sim = <<>>
    /\ eng_i = 0
    /\ eng_rets = <<>>
    /\ eng_processed = <<>>
    /\ eng_result = <<>>

\* no SignatureEngine shared by adding threads
ConcAddIdle ==
    /\ ca_patterns = <<>>
    /\ ca_matcher = <<>>
    /\ ca_readers = {}
    /\ ca_pc = <<>>
    /\ ca_pattern = <<>>
    /\ ca_built = <<>>
    /\ ca_returned = <<>>

\* no MemoryPool
PoolIdle ==
    /\ pool_capacity = 0
    /\ free_indices = <<>>
    /\ allocated_count = 0
    /\ live_ptrs = <<>>
    /\ pool_ops = 0
    /\ pool_last = <<>>

\* no ReplayEngine shared by tasks
ConcReplayIdle ==
    /\ cr_scenario = <<>>
    /\ cr_position = 0
    /\ cr_clock = 0
    /\ cr_pc = <<>>
    /\ cr_pos = <<>>
    /\ cr_log = <<>>

LateIdle ==
    /\ FuzzIdle
    /\ EngIdle
    /\ ConcAddIdle
    /\ PoolIdle
    /\ ConcReplayIdle

ExtIdle ==
    /\ ReplayIdle
    /\ ValIdle
    /\ ParseIdle
    /\ ProcIdle
    /\ SigIdle
    /\ ClockIdle
    /\ LateIdle

Init == BusInit /\ SimIdle /\ PipeIdle /\ ExtIdle

(* --------------------------- the producer ----------------------------- *)

\* The producer task calls send(event) or send_blocking(event) with the
\* next event.
PCall(kind) ==
    /\ new_result = "Ok"
    /\ p_pc = "idle"
    /\ next_id <= MaxEvents
    /\ p_pc' = "ld_head"
    /\ p_kind' = kind
    /\ p_ev' = next_id
    /\ next_id' = next_id + 1
    /\ p_result' = "none"
    /\ blocking_calls' = IF kind = "blocking"
                         THEN Append(blocking_calls, next_id)
                         ELSE blocking_calls
    /\ UNCHANGED <<requested, new_result, capacity, mask, buffer, head, tail,
                   p_head, p_tail, c_pc, c_tail, c_head, c_ev, c_result,
                   accepted, received>>
    /\ UNCHANGED nonBusVars

\* send: let head = head.load(Relaxed)
PLoadHead ==
    /\ p_pc = "ld_head"
    /\ p_head' = head
    /\ p_pc' = "ld_tail"
    /\ UNCHANGED <<requested, new_result, capacity, mask, buffer, head, tail,
                   p_kind, p_ev, p_tail, p_result, next_id,
                   c_pc, c_tail, c_head, c_ev, c_result,
                   accepted, received, blocking_calls>>
    /\ UNCHANGED nonBusVars

\* What the caller does with Err(QueueFull): send returns it to the caller;
\* send_blocking yields and calls send again.
AfterQueueFullMutBreak(kind) == "idle"

AfterQueueFull(kind) == IF kind = "blocking" THEN "yield" ELSE "idle"

\* send: let tail = tail.load(Acquire); if head - tail >= len { Err(QueueFull) }
PLoadTail ==
    /\ p_pc = "ld_tail"
    /\ p_tail' = tail
    /\ IF IsFull(p_head, tail)
       THEN /\ p_result' = "QueueFull"
            /\ p_pc' = AfterQueueFull(p_kind)
       ELSE /\ p_result' = p_result
            /\ p_pc' = "write"
    /\ UNCHANGED <<requested, new_result, capacity, mask, buffer, head, tail,
                   p_kind, p_ev, p_head, next_id,
                   c_pc, c_tail, c_head, c_ev, c_result,
                   accepted, received, blocking_calls>>
    /\ UNCHANGED nonBusVars

\* send: *buffer[head & mask].get() = Some(event)
PWrite ==
    /\ p_pc = "write"
    /\ buffer' = [buffer EXCEPT ![SlotIndex(p_head)] = Some(p_ev)]
    /\ p_pc' = "st_head"
    /\ UNCHANGED <<requested, new_result, capacity, mask, head, tail,
                   p_kind, p_ev, p_head, p_tail, p_result, next_id,
                   c_pc, c_tail, c_head, c_ev, c_result,
                   accepted, received, blocking_calls>>
    /\ UNCHANGED nonBusVars

\* send: head.store(head + 1, Release); Ok(())
PStoreHead ==
    /\ p_pc = "st_head"
    /\ head' = p_head + 1
    /\ p_result' = "Ok"
    /\ accepted' = Append(accepted, p_ev)
    /\ p_pc' = "idle"
    /\ UNCHANGED <<requested, new_result, capacity, mask, buffer, tail,
                   p_kind, p_ev, p_head, p_tail, next_id,
                   c_pc, c_tail, c_head, c_ev, c_result,
                   received, blocking_calls>>
    /\ UNCHANGED nonBusVars

\* send_blocking: Err(QueueFull) => std::thread::yield_now(), then loop
PYield ==
    /\ p_pc = "yield"
    /\ p_pc' = "ld_head"
    /\ p_result' = "none"
    /\ UNCHANGED <<requested, new_result, capacity, mask, buffer, head, tail,
                   p_kind, p_ev, p_head, p_tail, next_id,
                   c_pc, c_tail, c_head, c_ev, c_result,
                   accepted, received, blocking_calls>>
    /\ UNCHANGED nonBusVars

Producer ==
    \/ PCall("send")
    \/ PCall("blocking")
    \/ PLoadHead
    \/ PLoadTail
    \/ PWrite
    \/ PStoreHead
    \/ PYield

(* --------------------------- the consumer ----------------------------- *)

\* recv: let tail = tail.load(Relaxed)
CLoadTail ==
    /\ new_result = "Ok"
    /\ c_pc = "idle"
    /\ c_tail' = tail
    /\ c_pc' = "ld_head"
    /\ UNCHANGED <<requested, new_result, capacity, mask, buffer, head, tail,
                   p_pc, p_kind, p_ev, p_head, p_tail, p_result, next_id,
                   c_head, c_ev, c_result,
                   accepted, received, blocking_calls>>
    /\ UNCHANGED nonBusVars

\* recv: let head = head.load(Acquire); if head == tail { return None }
CLoadHead ==
    /\ c_pc = "ld_head"
    /\ c_head' = head
    /\ IF IsEmpty(head, c_tail)
       THEN /\ c_result' = None
            /\ c_pc' = "idle"
       ELSE /\ c_result' = c_result
            /\ c_pc' = "take"
    /\ UNCHANGED <<requested, new_result, capacity, mask, buffer, head, tail,
                   p_pc, p_kind, p_ev, p_head, p_tail, p_result, next_id,
                   c_tail, c_ev,
                   accepted, received, blocking_calls>>
    /\ UNCHANGED nonBusVars

CTakeMutNewest ==
    /\ c_pc = "take"
    /\ c_ev' = buffer[SlotIndex(c_head - 1)]
    /\ buffer' = [buffer EXCEPT ![SlotIndex(c_head - 1)] = None]
    /\ c_pc' = "st_tail"
    /\ UNCHANGED <<requested, new_result, capacity, mask, head, tail,
                   p_pc, p_kind, p_ev, p_head, p_tail, p_result, next_id,
                   c_tail, c_head, c_result,
                   accepted, received, blocking_calls>>
    /\ UNCHANGED nonBusVars

\* recv: (*buffer[tail & mask].get()).take()
CTake ==
    /\ c_pc = "take"
    /\ c_ev' = buffer[SlotIndex(c_tail)]
    /\ buffer' = [buffer EXCEPT ![SlotIndex(c_tail)] = None]
    /\ c_pc' = "st_tail"
    /\ UNCHANGED <<requested, new_result, capacity, mask, head, tail,
                   p_pc, p_kind, p_ev, p_head, p_tail, p_result, next_id,
                   c_tail, c_head, c_result,
                   accepted, received, blocking_calls>>
    /\ UNCHANGED nonBusVars

\* recv: tail.store(tail + 1, Release); event
CStoreTail ==
    /\ c_pc = "st_tail"
    /\ tail' = c_tail + 1
    /\ c_result' = c_ev
    /\ received' = IF c_ev # None THEN Append(received, c_ev[1]) ELSE received
    /\ c_pc' = "idle"
    /\ UNCHANGED <<requested, new_result, capacity, mask, buffer, head,
                   p_pc, p_kind, p_ev, p_head, p_tail, p_result, next_id,
                   c_tail, c_head, c_ev,
                   accepted, blocking_calls>>
    /\ UNCHANGED nonBusVars

Consumer ==
    \/ CLoadTail
    \/ CLoadHead
    \/ CTake
    \/ CStoreTail

(* -------------------------- specifications ---------------------------- *)

Next ==
    \/ Producer
    \/ Consumer

Spec == Init /\ [][Next]_vars

\* Both tasks are OS threads / runtime tasks that keep being scheduled:
\* the producer keeps running its call, the consumer keeps calling recv.
SpecBusFair == Spec /\ WF_vars(Producer) /\ WF_vars(Consumer)

(* ============================ the simulator =========================== *)

\* base_delay_ns = 100_000_000 (100 ms)
BaseDelayNs == 100000000

\* Duration::from_millis: nanoseconds per millisecond
NsPerMs == 1000000

\* the seed of the simulator's own test
SimSeed == 42

\* the bytes folded into the hasher for a dropped event: b"DROPPED"
Dropped == <<"DROPPED">>

\* chaos::inject_fault: event.push_str(" [FAULT INJECTED]")
InjectFault(body) == Append(body, " [FAULT INJECTED]")

\* format!("Event {}", event_id)
EventBody(id) == <<"Event ", ToString(id)>>

\* VirtualClock::new(seed)
ClockNew(seed) == seed

ClockAdvanceMutSaturating(clock, ns) ==
    IF clock + ns >= U64Wrap THEN U64Wrap - 1 ELSE clock + ns

\* VirtualClock::advance(ns): offset.fetch_add(ns), which wraps around on
\* overflow of the AtomicU64
ClockAdvance(clock, ns) == (clock + ns) % U64Wrap

\* VirtualClock::now_ns()
ClockNow(clock) == clock

\* FixedLatencyModel::apply_latency(duration) = duration + latency
ApplyLatency(latency_ms, duration_ns) == duration_ns + latency_ms * NsPerMs

\* RandomJitterModel::apply_jitter(duration) = duration + from_millis(jitter_ms)
\* for the jitter_ms its rng drew
ApplyJitter(drawn_ms, duration_ns) == duration_ns + drawn_ms * NsPerMs

\* What gen_range(0..=magnitude_ms) can return.  The rng is
\* SmallRng::from_rng(&mut rand::rng()): seeded from the thread's entropy
\* source, not from the simulator seed, so any value of the range.
JitterDraws(magnitude_ms) == 0..magnitude_ms

\* What rand::rng().random_bool(0.1) can return when chaos is enabled (the
\* && short-circuits when it is not): the thread rng is not seeded.
ChaosRolls(chaos_enabled) == IF chaos_enabled THEN BOOLEAN ELSE {FALSE}

\* The packet loss models: NoPacketLossModel, and ProbabilisticLossModel
\* with its drop probability in percent.
NoPacketLoss == [kind |-> "NoPacketLoss", percent |-> 0]

Probabilistic(percent) == [kind |-> "Probabilistic", percent |-> percent]

\* What should_drop() can return: false for NoPacketLossModel;
\* random_bool(p) is false for p = 0, true for p = 1, either otherwise.
ShouldDrop(model) ==
    IF model.kind = "NoPacketLoss" \/ model.percent = 0 THEN {FALSE}
    ELSE IF model.percent = 100 THEN {TRUE}
    ELSE BOOLEAN

\* Simulator::new(seed, chaos_enabled, latency_ms, jitter_ms, event_bus);
\* event_bus is whether a bus is attached.
SimulatorNew(seed, chaos_enabled, latency_ms, jitter_ms, event_bus) ==
    [clock |-> ClockNew(seed),
     latency_ms |-> latency_ms,
     jitter_ms |-> jitter_ms,
     packet_loss |-> NoPacketLoss,
     state_hasher |-> <<>>,
     chaos_enabled |-> chaos_enabled,
     event_bus |-> event_bus]

\* Simulator::set_packet_loss_model
SetPacketLossModel(s, model) == [s EXCEPT !.packet_loss = model]

\* Hasher::update(bytes): the hasher's state is the byte stream absorbed
HasherUpdate(hasher, bytes) == hasher \o bytes

\* hex::encode(state_hasher.finalize().as_bytes()): BLAKE3 of the stream
FinalizeHash(hasher) == [blake3_hex_of |-> hasher]

OnDropMutSilent(s) == s

OnDropMutAdvance(s) ==
    [s EXCEPT !.state_hasher = HasherUpdate(@, Dropped),
              !.clock = ClockAdvance(@, BaseDelayNs)]

\* simulate_event, packet lost: state_hasher.update(b"DROPPED"); return None
OnDrop(s) == [s EXCEPT !.state_hasher = HasherUpdate(@, Dropped)]

\* Simulator::simulate_event(event_id) for the outcomes drop, drawn_ms and
\* fault of its three random draws: the simulator afterwards, the value
\* returned, and the event handed to blocking_push (None without a bus).
SimulateEvent(s, event_id, drop, drawn_ms, fault) ==
    IF drop
    THEN [sim |-> OnDrop(s), ret |-> None, push |-> None]
    ELSE LET delay == ApplyLatency(s.latency_ms, BaseDelayNs)
             jitter == ApplyJitter(drawn_ms, 0)
             total_delay == delay + jitter
             clock == ClockAdvance(s.clock, total_delay)
             body == IF s.chaos_enabled /\ fault
                     THEN InjectFault(EventBody(event_id))
                     ELSE EventBody(event_id)
             event == [timestamp |-> ClockNow(clock), payload |-> body]
         IN  [sim |-> [s EXCEPT
                         !.clock = clock,
                         !.state_hasher = IF s.event_bus
                                          THEN @
                                          ELSE HasherUpdate(@, body)],
              ret |-> Some(event),
              push |-> IF s.event_bus THEN Some(event) ELSE None]

\* try_push / send as one atomic step that succeeds (the ring of the
\* step-level specification, without the interleaving)
BusPush(e) ==
    /\ new_result = "Ok"
    /\ ~IsFull(head, tail)
    /\ buffer' = [buffer EXCEPT ![SlotIndex(head)] = Some(e)]
    /\ head' = head + 1
    /\ UNCHANGED <<requested, new_result, capacity, mask, tail>>

\* try_pop / recv as one atomic step that returns Some
BusPop ==
    /\ new_result = "Ok"
    /\ ~IsEmpty(head, tail)
    /\ buffer' = [buffer EXCEPT ![SlotIndex(tail)] = None]
    /\ tail' = tail + 1
    /\ UNCHANGED <<requested, new_result, capacity, mask, head>>

\* the event BusPop returns
BusFront == buffer[SlotIndex(tail)]

(* ------------------- two standalone simulator runs -------------------- *)

LossModels == {NoPacketLoss, Probabilistic(50), Probabilistic(100)}

SimParamSet ==
    [seed : {SimSeed},
     chaos_enabled : BOOLEAN,
     latency_ms : {0, 1},
     jitter_ms : {0, 1},
     loss : LossModels,
     event_count : {MaxSimEvents}]

\* the simulator of a run: Simulator::new, then set_packet_loss_model
RunSimulator(params, event_bus) ==
    SetPacketLossModel(
        SimulatorNew(params.seed, params.chaos_enabled, params.latency_ms,
                     params.jitter_ms, event_bus),
        params.loss)

\* what a run has done so far: the value each simulate_event returned, the
\* clock after each call, the events pushed on the bus, the events the
\* consumer received, and the hash run() returned
FreshRun ==
    [rets |-> <<>>, clocks |-> <<>>, pushed |-> <<>>, delivered |-> <<>>,
     hash |-> None]

SimInit ==
    /\ \E n \in 1..MaxCapacity :
          /\ IsPowerOfTwo(n)
          /\ BusIs(WithCapacity(n))
    /\ TasksIdle
    /\ sim_params \in SimParamSet
    /\ sim_bus \in {<<a, b>> : a \in BOOLEAN, b \in BOOLEAN}
    /\ run_no = 1
    /\ run_pc = "running"
    /\ sim = RunSimulator(sim_params, sim_bus[1])
    /\ sim_i = 0
    /\ runs = [r \in 1..2 |-> FreshRun]
    /\ PipeIdle
    /\ ExtIdle

\* Simulator::run, one iteration: self.simulate_event(event_id).  With a bus
\* attached blocking_push retries until the bus has room.
SimRunEvent ==
    /\ run_pc = "running"
    /\ sim_i < sim_params.event_count
    /\ \E drop \in ShouldDrop(sim.packet_loss),
          drawn_ms \in JitterDraws(sim.jitter_ms),
          fault \in ChaosRolls(sim.chaos_enabled) :
          LET out == SimulateEvent(sim, sim_i, drop, drawn_ms, fault)
          IN  /\ IF out.push # None
                 THEN BusPush(out.push[1])
                 ELSE UNCHANGED ringVars
              /\ sim' = out.sim
              /\ runs' = [runs EXCEPT
                    ![run_no].rets = Append(@, out.ret),
                    ![run_no].clocks = Append(@, ClockNow(out.sim.clock)),
                    ![run_no].pushed = @ \o out.push]
    /\ sim_i' = sim_i + 1
    /\ UNCHANGED <<taskVars, sim_params, sim_bus, run_no, run_pc>>
    /\ UNCHANGED <<pipeVars, extVars>>

\* Simulator::run, after the loop: hex::encode(state_hasher.finalize())
SimRunFinish ==
    /\ run_pc = "running"
    /\ sim_i = sim_params.event_count
    /\ run_pc' = "finished"
    /\ runs' = [runs EXCEPT
          ![run_no].hash = Some(FinalizeHash(sim.state_hasher))]
    /\ UNCHANGED <<ringVars, taskVars, sim_params, sim_bus, run_no, sim, sim_i>>
    /\ UNCHANGED <<pipeVars, extVars>>

\* the consumer of the attached bus receives an event
SimRecv ==
    /\ run_pc \in {"running", "finished"}
    /\ sim_bus[run_no]
    /\ BusPop
    /\ runs' = [runs EXCEPT ![run_no].delivered = @ \o BusFront]
    /\ UNCHANGED <<taskVars, sim_params, sim_bus, run_no, run_pc, sim, sim_i>>
    /\ UNCHANGED <<pipeVars, extVars>>

\* the second run: a new bus of the same capacity and a new Simulator
\* constructed with the same parameters
SimNextRun ==
    /\ run_no = 1
    /\ run_pc = "finished"
    /\ run_no' = 2
    /\ run_pc' = "running"
    /\ sim' = RunSimulator(sim_params, sim_bus[2])
    /\ sim_i' = 0
    /\ buffer' = WithCapacity(capacity).buffer
    /\ head' = WithCapacity(capacity).head
    /\ tail' = WithCapacity(capacity).tail
    /\ UNCHANGED <<requested, new_result, capacity, mask, taskVars, sim_params, sim_bus,
                   runs>>
    /\ UNCHANGED <<pipeVars, extVars>>

SimNext ==
    \/ SimRunEvent
    \/ SimRunFinish
    \/ SimRecv
    \/ SimNextRun

SpecSim == SimInit /\ [][SimNext]_vars


(* ======================= the runtime's pipeline ======================= *)
(* run_simulation_mode (vakthund-engine/src/runtime.rs) and                *)
(* run_fuzz_testing (vakthund-engine/src/engine/runtime.rs): a producer    *)
(* that drives a Simulator with the bus attached, and a consumer task.     *)
(* Bus operations are the atomic BusPush / BusPop steps.                   *)

PipeCfgSet ==
    [seed : {SimSeed},
     chaos_enabled : BOOLEAN,
     latency_ms : {0},
     jitter_ms : {0},
     event_count : 1..MaxPipeEvents,
     iterations : 1..MaxIterations]

\* Simulator::new(seed, fault_probability > 0.0, latency_ms, jitter_ms,
\* Some(event_bus)); fuzz iteration k uses seed + k
PipeSimulator(cfg, k) ==
    SimulatorNew(cfg.seed + k, cfg.chaos_enabled, cfg.latency_ms,
                 cfg.jitter_ms, TRUE)

PipeInit ==
    /\ \E n \in 1..MaxCapacity :
          /\ IsPowerOfTwo(n)
          /\ BusIs(WithCapacity(n))
    /\ TasksIdle
    /\ SimIdle
    /\ ExtIdle
    /\ pipe_mode \in {"simulation", "fuzz"}
    /\ pipe_cfg \in PipeCfgSet
    /\ (pipe_mode = "simulation") => (pipe_cfg.iterations = 1)
    /\ pipe_sim = PipeSimulator(pipe_cfg, 0)
    /\ prod_pc = "simulate"
    /\ prod_i = 0
    /\ prod_ev = None
    /\ event_queue = <<>>
    /\ iteration = 0
    /\ failed = 0
    /\ closed = FALSE
    /\ cons_pc = "run"
    /\ rt_pc = IF pipe_mode = "simulation" THEN "await_sim" ELSE "fuzzing"
    /\ emitted = <<>>
    /\ consumed = <<>>
    /\ pipe_hash = None

\* for event_id in 0..event_count { simulator.simulate_event(event_id) }:
\* simulate_event up to its call of blocking_push
PipeSimulate ==
    /\ prod_pc = "simulate"
    /\ prod_i < pipe_cfg.event_count
    /\ \E drop \in ShouldDrop(pipe_sim.packet_loss),
          drawn_ms \in JitterDraws(pipe_sim.jitter_ms),
          fault \in ChaosRolls(pipe_sim.chaos_enabled) :
          LET out == SimulateEvent(pipe_sim, prod_i, drop, drawn_ms, fault)
          IN  /\ pipe_sim' = out.sim
              /\ prod_ev' = out.ret
              /\ emitted' = emitted \o out.ret
              /\ prod_pc' = IF out.push # None THEN "push_inner"
                            ELSE "simulate"
              /\ prod_i' = IF out.push # None THEN prod_i ELSE prod_i + 1
    /\ UNCHANGED <<busVars, simVars, extVars, pipe_mode, pipe_cfg, event_queue,
                   iteration, failed, closed, cons_pc, rt_pc, consumed,
                   pipe_hash>>

\* blocking_push inside simulate_event: try_push; on QueueFull yield and
\* retry.  simulate_event then returns Some(event) to the runtime, which in
\* simulation mode calls its own blocking_push with it and in fuzz mode
\* keeps it in event_queue.
PipePushInner ==
    /\ prod_pc = "push_inner"
    /\ IF IsFull(head, tail)
       THEN /\ prod_pc' = "yield_inner"
            /\ UNCHANGED <<busVars, prod_i, event_queue>>
       ELSE /\ BusPush(prod_ev[1])
            /\ UNCHANGED taskVars
            /\ IF pipe_mode = "simulation"
               THEN /\ prod_pc' = "push_outer"
                    /\ UNCHANGED <<prod_i, event_queue>>
               ELSE /\ prod_pc' = "simulate"
                    /\ prod_i' = prod_i + 1
                    /\ event_queue' = Append(event_queue, prod_ev[1])
    /\ UNCHANGED <<simVars, extVars, pipe_mode, pipe_cfg, pipe_sim, prod_ev,
                   iteration, failed, closed, cons_pc, rt_pc, emitted,
                   consumed, pipe_hash>>

\* run_simulation_mode: if let Some(event) = simulate_event(id)
\* { blocking_push(&event_bus_sim, event) }
PipePushOuter ==
    /\ prod_pc = "push_outer"
    /\ IF IsFull(head, tail)
       THEN /\ prod_pc' = "yield_outer"
            /\ UNCHANGED <<busVars, prod_i>>
       ELSE /\ BusPush(prod_ev[1])
            /\ UNCHANGED taskVars
            /\ prod_pc' = "simulate"
            /\ prod_i' = prod_i + 1
    /\ UNCHANGED <<simVars, extVars, pipe_mode, pipe_cfg, pipe_sim, prod_ev,
                   event_queue, iteration, failed, closed, cons_pc, rt_pc,
                   emitted, consumed, pipe_hash>>

\* blocking_push: std::thread::yield_now(), then try_push again
PipeYield ==
    /\ prod_pc \in {"yield_inner", "yield_outer"}
    /\ prod_pc' = IF prod_pc = "yield_inner" THEN "push_inner"
                  ELSE "push_outer"
    /\ UNCHANGED <<busVars, simVars, extVars, pipe_mode, pipe_cfg, pipe_sim, prod_i,
                   prod_ev, event_queue, iteration, failed, closed, cons_pc,
                   rt_pc, emitted, consumed, pipe_hash>>

\* run_simulation_mode, end of the simulator task: simulator.finalize_hash()
PipeSimulatorDone ==
    /\ pipe_mode = "simulation"
    /\ prod_pc = "simulate"
    /\ prod_i = pipe_cfg.event_count
    /\ prod_pc' = "done"
    /\ pipe_hash' = Some(FinalizeHash(pipe_sim.state_hasher))
    /\ UNCHANGED <<busVars, simVars, extVars, pipe_mode, pipe_cfg, pipe_sim, prod_i,
                   prod_ev, event_queue, iteration, failed, closed, cons_pc,
                   rt_pc, emitted, consumed>>

\* run_fuzz_testing: for event in event_queue { self.event_bus.send(event) },
\* one iteration: Ok, or Err(QueueFull) and failed += 1
FuzzBatchSend ==
    /\ pipe_mode = "fuzz"
    /\ prod_pc = "simulate"
    /\ prod_i = pipe_cfg.event_count
    /\ event_queue # <<>>
    /\ IF IsFull(head, tail)
       THEN /\ failed' = failed + 1
            /\ UNCHANGED busVars
       ELSE /\ BusPush(Head(event_queue))
            /\ UNCHANGED taskVars
            /\ failed' = failed
    /\ event_queue' = Tail(event_queue)
    /\ UNCHANGED <<simVars, extVars, pipe_mode, pipe_cfg, pipe_sim, prod_pc, prod_i,
                   prod_ev, iteration, closed, cons_pc, rt_pc, emitted,
                   consumed, pipe_hash>>

\* run_fuzz_testing: sleep, current_iteration += 1, and either the next
\* iteration (a new Simulator) or the end of the loop
FuzzIterationEnd ==
    /\ pipe_mode = "fuzz"
    /\ prod_pc = "simulate"
    /\ prod_i = pipe_cfg.event_count
    /\ event_queue = <<>>
    /\ iteration' = iteration + 1
    /\ failed' = 0
    /\ IF iteration + 1 >= pipe_cfg.iterations
       THEN /\ prod_pc' = "close"
            /\ UNCHANGED <<pipe_sim, prod_i>>
       ELSE /\ prod_pc' = "simulate"
            /\ pipe_sim' = PipeSimulator(pipe_cfg, iteration + 1)
            /\ prod_i' = 0
    /\ UNCHANGED <<busVars, simVars, extVars, pipe_mode, pipe_cfg, prod_ev,
                   event_queue, closed, cons_pc, rt_pc, emitted, consumed,
                   pipe_hash>>

\* run_fuzz_testing: self.event_bus.close(), then processor_handle.await
FuzzClose ==
    /\ prod_pc = "close"
    /\ closed' = TRUE
    /\ prod_pc' = "done"
    /\ rt_pc' = "await_proc"
    /\ UNCHANGED <<busVars, simVars, extVars, pipe_mode, pipe_cfg, pipe_sim, prod_i,
                   prod_ev, event_queue, iteration, failed, cons_pc,
                   emitted, consumed, pipe_hash>>

PipeProducer ==
    \/ PipeSimulate
    \/ PipePushInner
    \/ PipePushOuter
    \/ PipeYield
    \/ PipeSimulatorDone
    \/ FuzzBatchSend
    \/ FuzzIterationEnd
    \/ FuzzClose

\* process_events_from_bus: while let Some(event) = event_bus.try_pop()
\* { process_network_event(event) }; Ok(())
SimConsumerPop ==
    /\ pipe_mode = "simulation"
    /\ cons_pc = "run"
    /\ IF IsEmpty(head, tail)
       THEN /\ cons_pc' = "exited"
            /\ UNCHANGED <<busVars, consumed>>
       ELSE /\ BusPop
            /\ UNCHANGED taskVars
            /\ consumed' = consumed \o BusFront
            /\ cons_pc' = "run"
    /\ UNCHANGED <<simVars, extVars, pipe_mode, pipe_cfg, pipe_sim, prod_pc, prod_i,
                   prod_ev, event_queue, iteration, failed, closed, rt_pc,
                   emitted, pipe_hash>>

\* spawn_event_processor: loop { match event_bus.recv() { Some(event) =>
\* process(event), None => sleep(10 ms) } }
FuzzConsumerRecv ==
    /\ pipe_mode = "fuzz"
    /\ cons_pc = "run"
    /\ IF IsEmpty(head, tail)
       THEN /\ cons_pc' = "sleep"
            /\ UNCHANGED <<busVars, consumed>>
       ELSE /\ BusPop
            /\ UNCHANGED taskVars
            /\ consumed' = consumed \o BusFront
            /\ cons_pc' = "run"
    /\ UNCHANGED <<simVars, extVars, pipe_mode, pipe_cfg, pipe_sim, prod_pc, prod_i,
                   prod_ev, event_queue, iteration, failed, closed, rt_pc,
                   emitted, pipe_hash>>

\* spawn_event_processor: the sleep is over, back to the top of the loop
FuzzConsumerWake ==
    /\ cons_pc = "sleep"
    /\ cons_pc' = "run"
    /\ UNCHANGED <<busVars, simVars, extVars, pipe_mode, pipe_cfg, pipe_sim, prod_pc,
                   prod_i, prod_ev, event_queue, iteration, failed, closed,
                   rt_pc, emitted, consumed, pipe_hash>>

PipeConsumer ==
    \/ SimConsumerPop
    \/ FuzzConsumerRecv
    \/ FuzzConsumerWake

\* run_simulation_mode: let final_hash = simulator_handle.await
RtJoinSimulator ==
    /\ rt_pc = "await_sim"
    /\ prod_pc = "done"
    /\ rt_pc' = "await_proc"
    /\ UNCHANGED <<busVars, simVars, extVars, pipe_mode, pipe_cfg, pipe_sim, prod_pc,
                   prod_i, prod_ev, event_queue, iteration, failed, closed,
                   cons_pc, emitted, consumed, pipe_hash>>

\* processor_handle.await returns once the consumer task has returned; the
\* runtime then finishes the run
RtJoinProcessor ==
    /\ rt_pc = "await_proc"
    /\ cons_pc = "exited"
    /\ rt_pc' = "done"
    /\ UNCHANGED <<busVars, simVars, extVars, pipe_mode, pipe_cfg, pipe_sim, prod_pc,
                   prod_i, prod_ev, event_queue, iteration, failed, closed,
                   cons_pc, emitted, consumed, pipe_hash>>

PipeRuntime ==
    \/ RtJoinSimulator
    \/ RtJoinProcessor

PipeNext ==
    \/ PipeProducer
    \/ PipeConsumer
    \/ PipeRuntime

SpecPipe == PipeInit /\ [][PipeNext]_vars

\* The producer, the consumer and the runtime's main task are tasks of the
\* tokio runtime (or the thread blocked in it): each keeps being scheduled.
SpecPipeFair ==
    /\ SpecPipe
    /\ WF_vars(PipeProducer)
    /\ WF_vars(PipeConsumer)
    /\ WF_vars(PipeRuntime)

(* ------------------------ claims on the pipeline ---------------------- *)

\* C6: every event simulate_event returns is delivered to the consumer
\* exactly once and in generation order: what the consumer has processed is
\* a prefix of what was emitted, and all of it once the run has drained.
C6_EmittedDeliveredExactlyOnce ==
    /\ IsPrefixOf(consumed, emitted)
    /\ (prod_pc = "done" /\ IsEmpty(head, tail)) => consumed = emitted

\* C7: the consumer task exits only when the bus is closed (or its producer
\* has finished) and empty, so every event enqueued has been processed when
\* it has exited.
C7_ConsumerExitsOnlyClosedAndEmpty ==
    (cons_pc = "exited") =>
        /\ closed \/ prod_pc = "done"
        /\ IsEmpty(head, tail)

\* C8: every simulation or fuzz run with a finite number of events (and
\* iterations > 0) terminates: the runtime's join on the consumer returns.
C8_RunTerminates == <>(rt_pc = "done")


(* ======================== scenarios and replay ======================== *)
(* vakthund-simulator/src/replay.rs                                        *)

\* SimulatorConfig::default()
DefaultSimulatorConfig ==
    [seed |-> SimSeed, event_count |-> 10000, fault_probability |-> 0,
     latency_ms |-> 0, jitter_ms |-> 0]

\* the enum ScenarioEvent; delay_ns and event are the fields of the
\* variants that have them
NetworkEventEntry(delay_ns, event) ==
    [kind |-> "NetworkEvent", delay_ns |-> delay_ns, event |-> Some(event)]

NetworkDelayEntry(delay) ==
    [kind |-> "NetworkDelay", delay_ns |-> delay, event |-> None]

OtherEntry(kind) == [kind |-> kind, delay_ns |-> 0, event |-> None]

\* NetworkEvent::new(timestamp, payload)
NetworkEventNew(timestamp, payload) ==
    [timestamp |-> timestamp, payload |-> payload]

ScenarioEntries ==
    {NetworkEventEntry(1, NetworkEventNew(0, <<"dummy a">>)),
     NetworkEventEntry(2, NetworkEventNew(0, <<"dummy b">>)),
     NetworkDelayEntry(1),
     OtherEntry("PacketLoss"),
     OtherEntry("FaultInjection"),
     OtherEntry("CustomEvent")}

\* sequences over S of length at most n
SeqsUpTo(S, n) == UNION {[1..k -> S] : k \in 0..n}

\* the struct Scenario
ScenarioSet ==
    [seed : {0, 123},
     config : {DefaultSimulatorConfig},
     events : SeqsUpTo(ScenarioEntries, MaxScenarioLen),
     expected_hash : {FinalizeHash(<<>>), FinalizeHash(<<"recorded">>)}]

\* One line of a text file: what is left of it after trim() is either a
\* bare unsigned number (text empty, num the number) or something else.
Line(text, num, str) == [text |-> text, num |-> num, str |-> str]

\* line.trim().parse::<u64>()
ParseU64(line) ==
    IF line.text = "" /\ line.num # <<>> /\ line.str = <<>>
    THEN Some(line.num[1])
    ELSE None

\* serde_yaml::to_string of one ScenarioEvent: a list item naming the
\* variant, then a line per field
EntryToYaml(entry) ==
    IF entry.kind = "NetworkEvent"
    THEN <<Line("- NetworkEvent:", <<>>, <<>>),
           Line("delay_ns:", <<entry.delay_ns>>, <<>>),
           Line("event:", <<>>, <<>>),
           Line("timestamp:", <<entry.event[1].timestamp>>, <<>>),
           Line("payload:", <<>>, entry.event[1].payload)>>
    ELSE IF entry.kind = "NetworkDelay"
    THEN <<Line("- NetworkDelay:", <<entry.delay_ns>>, <<>>)>>
    ELSE <<Line("- other:", <<>>, <<entry.kind>>)>>

RECURSIVE EntriesToYaml(_)
EntriesToYaml(events) ==
    IF events = <<>> THEN <<>>
    ELSE EntryToYaml(Head(events)) \o EntriesToYaml(Tail(events))

\* serde_yaml::to_string(self): the lines of the YAML document
ToYaml(scenario) ==
    <<Line("seed:", <<scenario.seed>>, <<>>),
      Line("config:", <<>>, <<>>),
      Line("seed:", <<scenario.config.seed>>, <<>>),
      Line("event_count:", <<scenario.config.event_count>>, <<>>),
      Line("chaos:", <<>>, <<>>),
      Line("fault_probability:", <<scenario.config.fault_probability>>, <<>>),
      Line("network:", <<>>, <<>>),
      Line("latency_ms:", <<scenario.config.latency_ms>>, <<>>),
      Line("jitter_ms:", <<scenario.config.jitter_ms>>, <<>>),
      Line("events:", <<>>, <<>>)>>
    \o EntriesToYaml(scenario.events)
    \o <<Line("expected_hash:", <<>>, scenario.expected_hash.blake3_hex_of)>>

\* the loop of load_from_path over content.lines(): an event and
\* hasher.update(&delay_ns.to_be_bytes()) for each line that parses
RECURSIVE LoadLines(_, _, _)
LoadLines(lines, events, hasher) ==
    IF lines = <<>> THEN [events |-> events, hasher |-> hasher]
    ELSE LET delay_ns == ParseU64(Head(lines))
         IN  IF delay_ns # None
             THEN LoadLines(Tail(lines),
                     Append(events,
                        NetworkEventEntry(delay_ns[1],
                           NetworkEventNew(delay_ns[1],
                                           <<"replayed event">>))),
                     HasherUpdate(hasher, <<ToString(delay_ns[1])>>))
             ELSE LoadLines(Tail(lines), events, hasher)

\* Scenario::load_from_path on a file with these lines
LoadScenario(lines) ==
    LET out == LoadLines(lines, <<>>, <<>>)
    IN  [seed |-> 0,
         config |-> DefaultSimulatorConfig,
         events |-> out.events,
         expected_hash |-> FinalizeHash(out.hasher)]

\* the lines of a file written by hand: a delay per line, and comments
DelayFileLines ==
    {Line("", <<1>>, <<>>), Line("", <<2>>, <<>>),
     Line("# comment", <<>>, <<>>)}

ReplayInit ==
    /\ BusIs(WithCapacity(1))
    /\ TasksIdle
    /\ SimIdle
    /\ PipeIdle
    /\ ClockIdle
    /\ LateIdle
    /\ ValIdle
    /\ ParseIdle
    /\ ProcIdle
    /\ SigIdle
    /\ scn \in ScenarioSet
    /\ file = None
    /\ loaded = None
    /\ rp_scenario = <<>>
    /\ rp_position = 0
    /\ rp_clock = 0
    /\ rp_yielded = <<>>
    /\ rp_pc = "none"

\* Scenario::save_to_file(path): std::fs::write(path, serialized)
SaveToFile ==
    /\ file = None
    /\ file' = Some(ToYaml(scn))
    /\ UNCHANGED <<outsideReplay, scn, loaded, rp_scenario, rp_position,
                   rp_clock, rp_yielded, rp_pc>>

\* a scenario file written by hand, one delay per line
WriteDelayFile ==
    /\ file = None
    /\ \E lines \in SeqsUpTo(DelayFileLines, MaxScenarioLen) :
          file' = Some(lines)
    /\ UNCHANGED <<outsideReplay, scn, loaded, rp_scenario, rp_position,
                   rp_clock, rp_yielded, rp_pc>>

\* Scenario::load_from_path(path)
LoadFromPath ==
    /\ file # None
    /\ loaded = None
    /\ loaded' = Some(LoadScenario(file[1]))
    /\ UNCHANGED <<outsideReplay, scn, file, rp_scenario, rp_position, rp_clock,
                   rp_yielded, rp_pc>>

\* ReplayEngine::new(scenario, clock), with VirtualClock::new(seed), on
\* the scenario in memory or on the one loaded
ReplayNew ==
    /\ rp_pc = "none"
    /\ \E scenario \in {scn} \cup {loaded[k] : k \in 1..Len(loaded)} :
          /\ rp_scenario' = scenario
          /\ rp_clock' = ClockNew(scenario.seed)
    /\ rp_position' = 0
    /\ rp_yielded' = <<>>
    /\ rp_pc' = "driving"
    /\ UNCHANGED <<outsideReplay, scn, file, loaded>>

NextEventAtMutNoAdvance(scenario, pos) ==
    IF pos >= Len(scenario.events) THEN [ret |-> None, advance |-> 0]
    ELSE [ret |-> scenario.events[pos + 1].event, advance |-> 0]

\* ReplayEngine::next_event: what it returns at position pos, and the
\* nanoseconds it advances the clock by
NextEventAt(scenario, pos) ==
    IF pos >= Len(scenario.events) THEN [ret |-> None, advance |-> 0]
    ELSE LET entry == scenario.events[pos + 1]
         IN  IF entry.kind = "NetworkEvent"
             THEN [ret |-> entry.event, advance |-> entry.delay_ns]
             ELSE IF entry.kind = "NetworkDelay"
             THEN [ret |-> None, advance |-> entry.delay_ns]
             ELSE [ret |-> None, advance |-> 0]

\* one iteration of `while let Some(event) = replay_engine.next_event()`:
\* position.fetch_add(1), the entry's effect, and the end of the loop on None
ReplayNextEvent ==
    /\ rp_pc = "driving"
    /\ LET out == NextEventAt(rp_scenario, rp_position)
       IN  /\ rp_position' = rp_position + 1
           /\ rp_clock' = ClockAdvance(rp_clock, out.advance)
           /\ rp_yielded' = rp_yielded \o out.ret
           /\ rp_pc' = IF out.ret = None THEN "done" ELSE "driving"
    /\ UNCHANGED <<outsideReplay, scn, file, loaded, rp_scenario>>

ReplayNext ==
    \/ SaveToFile
    \/ WriteDelayFile
    \/ LoadFromPath
    \/ ReplayNew
    \/ ReplayNextEvent

SpecReplay == ReplayInit /\ [][ReplayNext]_vars

(* ------------------- claims on scenarios and replay ------------------- *)

\* the NetworkEvent entries of a scenario, in stored order
RECURSIVE StoredNetworkEvents(_)
StoredNetworkEvents(events) ==
    IF events = <<>> THEN <<>>
    ELSE Head(events).event \o StoredNetworkEvents(Tail(events))

\* C11: driving a ReplayEngine until next_event returns None yields every
\* NetworkEvent stored in the scenario, in stored order, also when other
\* entries lie between them.
C11_ReplayYieldsEveryStoredEvent ==
    (rp_pc = "done") =>
        rp_yielded = StoredNetworkEvents(rp_scenario.events)

\* C12: loading the file save_to_file wrote returns a Scenario equal to the
\* saved one: seed, config, expected_hash and events.
C12_SaveThenLoadIsIdentity ==
    (loaded # None /\ file = Some(ToYaml(scn))) => loaded = Some(scn)

\* every entry of the scenario is a NetworkEvent record
OnlyNetworkEvents(scenario) ==
    \A i \in 1..Len(scenario.events) :
        scenario.events[i].kind = "NetworkEvent"

\* d1 + ... + dk of the first k entries
RECURSIVE DelaysUpTo(_, _)
DelaysUpTo(events, k) ==
    IF k = 0 THEN 0 ELSE events[k].delay_ns + DelaysUpTo(events, k - 1)

ParseErr(err) ==
    [tag |-> "Err", err |-> err, fields |-> <<>>, payload |-> <<0, 0>>]

\* a panic of the call: a slice whose start is after its end or whose end is
\* after the end of the data, or an arithmetic overflow in a checked build
ParsePanic(why) ==
    [tag |-> "Panic", err |-> why, fields |-> <<>>, payload |-> <<0, 0>>]

\* &data[range.start..range.end] is in bounds
SliceOk(data, range) == range[1] <= range[2] /\ range[2] <= Len(data)

\* &data[range.start..range.end]
SliceOf(data, range) == SubSeq(data, range[1] + 1, range[2])

\* Ok(packet) with these slices of data as its fields, the last of them
\* the payload; the slicing panics when one of them is out of bounds
ParseOk(data, fields, payload) ==
    IF \A k \in 1..Len(fields) : SliceOk(data, fields[k])
    THEN IF SliceOk(data, payload)
         THEN [tag |-> "Ok", err |-> "", fields |-> fields,
               payload |-> payload]
         ELSE ParsePanic("slice index")
    ELSE ParsePanic("slice index")

\* `value += u32::from(byte_val & 0x7F) * multiplier` leaves the range of
\* u32: low7 * multiplier + value >= 2^32, computed in units of 128 (the
\* multiplier is 1 or a multiple of 128)
AddMulOverflowsU32(value, low7, multiplier) ==
    /\ multiplier >= 128
    /\ low7 * (multiplier \div 128) + (value \div 128) >= 33554432

\* MqttParser::decode_remaining_length(input), from the byte at offset i
\* on with the multiplier and value so far.  An overflowing += panics in a
\* build with overflow checks and wraps in one without; it can only
\* overflow when multiplier > 128^3, where the call returns
\* RemainingLengthMalformed whatever the value.
RECURSIVE DecodeFrom(_, _, _, _, _)
DecodeFrom(input, i, multiplier, value, checks) ==
    IF i >= Len(input) THEN ParseErr("RemainingLengthMalformed")
    ELSE LET byte_val == input[i + 1]
             low7 == byte_val % 128
         IN  IF checks /\ AddMulOverflowsU32(value, low7, multiplier)
             THEN ParsePanic("attempt to add with overflow")
             ELSE IF multiplier > 128 * 128 * 128
             THEN ParseErr("RemainingLengthMalformed")
             ELSE IF byte_val < 128
             THEN [tag |-> "Ok", value |-> value + low7 * multiplier,
                   used |-> i + 1]
             ELSE DecodeFrom(input, i + 1, multiplier * 128,
                             value + low7 * multiplier, checks)

DecodeRemainingLengthMutOneByte(input, checks) ==
    [tag |-> "Ok", value |-> input[1] % 128, used |-> 1]

DecodeRemainingLength(input, checks) == DecodeFrom(input, 0, 1, 0, checks)

\* MqttParser::parse
MqttParse(data, checks) ==
    IF Len(data) < 2 THEN ParseErr("InsufficientData")
    ELSE LET header == data[1]
             decoded == DecodeRemainingLength(Tail(data), checks)
         IN  IF decoded.tag # "Ok" THEN decoded
             ELSE LET remaining_length == decoded.value
                      fixed_header_length == 1 + decoded.used
                  IN  IF Len(data) < fixed_header_length + remaining_length
                      THEN ParseErr("PacketIncomplete")
                      ELSE IF header = 16
                      THEN IF remaining_length < 4
                           THEN ParseErr("InsufficientData")
                           ELSE ParseOk(data,
                                   <<<<fixed_header_length,
                                       fixed_header_length + 4>>>>,
                                   <<fixed_header_length + 4,
                                     fixed_header_length + remaining_length>>)
                      ELSE ParseOk(data, <<>>,
                              <<fixed_header_length,
                                fixed_header_length + remaining_length>>)

MarkerOffsetsMutLast(data, from) ==
    {k \in from..(Len(data) - 1) :
        /\ data[k + 1] = 255
        /\ \A j \in (k + 1)..(Len(data) - 1) : data[j + 1] # 255}

\* data[from..].iter().position(|&x| x == 0xFF): the offsets, counted from
\* the start of data, of the marker bytes at or after from
MarkerOffsets(data, from) ==
    {k \in from..(Len(data) - 1) : data[k + 1] = 255}

\* the least element of a nonempty set of numbers
Least(S) == CHOOSE x \in S : \A y \in S : x <= y

\* CoapParser::parse
CoapParse(data) ==
    IF Len(data) < 4 THEN ParseErr("InsufficientData")
    ELSE LET header == data[1]
             version == (header \div 64) % 4
             token_length == header % 16
         IN  IF version # 1 THEN ParseErr("InvalidVersion")
             ELSE IF 4 + token_length > Len(data)
             THEN ParseErr("InsufficientData")
             ELSE LET current_offset == 4 + token_length
                      markers == MarkerOffsets(data, current_offset)
                  IN  IF markers # {}
                      THEN ParseOk(data,
                              <<<<current_offset, Least(markers)>>>>,
                              <<Least(markers) + 1, Len(data)>>)
                      ELSE ParseOk(data,
                              <<<<current_offset, Len(data)>>>>,
                              <<0, 0>>)

\* u16::from_be_bytes([hi, lo])
U16FromBeBytes(hi, lo) == hi * 256 + lo

\* ModbusParser::parse
ModbusParse(data) ==
    IF Len(data) < 8 THEN ParseErr("InsufficientData")
    ELSE LET protocol_id == U16FromBeBytes(data[3], data[4])
             length == U16FromBeBytes(data[5], data[6])
         IN  IF protocol_id # 0 THEN ParseErr("MalformedPacket")
             ELSE IF Len(data) < 6 + length
             THEN ParseErr("InsufficientData")
             ELSE ParseOk(data, <<>>, <<8, 6 + length>>)


(* ---------------------- one call of each parser ----------------------- *)

\* byte values that take the parsers down different branches: 0x10 is the
\* MQTT header with a topic, 0x40 a CoAP header of version 1, 0xFF the CoAP
\* payload marker and an MQTT length byte with the continuation bit
ByteSamples == {0, 2, 4, 16, 64, 255}

\* 8-byte Modbus headers, with up to two bytes of data
ModbusFrames ==
    {<<0, 1>> \o protocol \o length \o <<1, 3>> \o data :
        protocol \in {<<0, 0>>, <<0, 2>>},
        length \in {<<0, 0>>, <<0, 1>>, <<0, 2>>, <<0, 4>>, <<255, 255>>},
        data \in SeqsUpTo({0, 255}, 2)}

\* an MQTT header, up to five length bytes with the continuation bit, and
\* a last byte
MqttLongLengths ==
    {<<header>> \o [k \in 1..n |-> 255] \o <<last>> :
        header \in {16, 48}, n \in 1..5, last \in {0, 2, 127}}

\* MQTT packets with a remaining-length field of two or three bytes (of
\* value 0, 2, 4 or 5), with fewer bytes than declared, as many, or more
MqttFrames ==
    {<<header>> \o field \o body :
        header \in {16, 48},
        field \in {<<128, 0>>, <<130, 0>>, <<132, 0>>, <<133, 0>>,
                   <<128, 128, 0>>},
        body \in SeqsUpTo({7, 255}, 6)}

\* CoAP headers of version 1 with a token of 0, 1, 2 or (claimed) 15 bytes
\* and of versions 0 and 2, followed by up to four bytes
CoapFrames ==
    {<<header, 2, 18, 52>> \o rest :
        header \in {64, 65, 66, 79, 0, 128},
        rest \in SeqsUpTo({7, 255}, 4)}

ParserInputs ==
    SeqsUpTo(ByteSamples, MaxInputLen) \cup ModbusFrames \cup MqttLongLengths
        \cup MqttFrames \cup CoapFrames

ParseInit ==
    /\ BusIs(WithCapacity(1))
    /\ TasksIdle
    /\ SimIdle
    /\ PipeIdle
    /\ ClockIdle
    /\ LateIdle
    /\ ReplayIdle
    /\ ValIdle
    /\ ProcIdle
    /\ SigIdle
    /\ pr_parser \in {"mqtt", "coap", "modbus"}
    /\ pr_checks \in BOOLEAN
    /\ pr_input \in ParserInputs
    /\ pr_result = None

\* MqttParser::new().parse(&data)
CallMqttParse ==
    /\ pr_parser = "mqtt"
    /\ pr_result = None
    /\ pr_result' = Some(MqttParse(pr_input, pr_checks))
    /\ UNCHANGED <<outsideParse, pr_parser, pr_checks, pr_input>>

\* CoapParser::new().parse(&data)
CallCoapParse ==
    /\ pr_parser = "coap"
    /\ pr_result = None
    /\ pr_result' = Some(CoapParse(pr_input))
    /\ UNCHANGED <<outsideParse, pr_parser, pr_checks, pr_input>>

\* ModbusParser::new().parse(&data)
CallModbusParse ==
    /\ pr_parser = "modbus"
    /\ pr_result = None
    /\ pr_result' = Some(ModbusParse(pr_input))
    /\ UNCHANGED <<outsideParse, pr_parser, pr_checks, pr_input>>

ParseNext ==
    \/ CallMqttParse
    \/ CallCoapParse
    \/ CallModbusParse

SpecParse == ParseInit /\ [][ParseNext]_vars

(* ------------------------ claims on the parsers ----------------------- *)

\* C14: for every byte slice each parser returns either a packet whose
\* fields are sub-slices of the input or one of its typed errors; no input
\* makes a parser panic.
C14_ParsersReturnPacketOrError ==
    (pr_result # None) =>
        /\ pr_result[1].tag \in {"Ok", "Err"}
        /\ (pr_result[1].tag = "Ok") =>
              /\ \A k \in 1..Len(pr_result[1].fields) :
                    SliceOk(pr_input, pr_result[1].fields[k])
              /\ SliceOk(pr_input, pr_result[1].payload)

\* the call made was of this parser and has returned this
Returned(parser) == pr_parser = parser /\ pr_result # None

\* C27: a remaining-length field whose first four bytes all have the
\* continuation bit set is decoded to RemainingLengthMalformed, whatever
\* bytes follow them and also when none does.
C27_FourContinuationBytesMalformed ==
    ( /\ Returned("mqtt")
      /\ Len(pr_input) >= 5
      /\ \A k \in 2..5 : pr_input[k] >= 128) =>
        pr_result[1] = ParseErr("RemainingLengthMalformed")

\* the number of bytes of the remaining-length field of an MQTT packet: up
\* to and including the first byte without the continuation bit
LengthFieldSize(data) ==
    Least({k \in 1..(Len(data) - 1) : data[k + 1] < 128})

\* the value of a remaining-length field of n bytes: 7 bits a byte, least
\* significant first
RECURSIVE LengthFieldValue(_, _)
LengthFieldValue(data, n) ==
    IF n = 0 THEN 0
    ELSE (data[n + 1] % 128) * 128^(n - 1) + LengthFieldValue(data, n - 1)

\* the topic of the packet returned: empty when it has no topic field
TopicOf(packet) ==
    IF packet.fields = <<>> THEN <<>> ELSE SliceOf(pr_input, packet.fields[1])

\* C28 as stated: on a successful MQTT parse of data with a fixed header
\* of h bytes, the topic is data[h..h+4] and the payload every byte after
\* it when the header byte is 0x10, and the topic is empty and the payload
\* every byte after the fixed header otherwise.
C28_TopicAndPayloadToEndOfData ==
    (Returned("mqtt") /\ pr_result[1].tag = "Ok") =>
        LET h == 1 + LengthFieldSize(pr_input)
            packet == pr_result[1]
        IN  IF pr_input[1] = 16
            THEN /\ TopicOf(packet) = SliceOf(pr_input, <<h, h + 4>>)
                 /\ SliceOf(pr_input, packet.payload) =
                        SliceOf(pr_input, <<h + 4, Len(pr_input)>>)
            ELSE /\ TopicOf(packet) = <<>>
                 /\ SliceOf(pr_input, packet.payload) =
                        SliceOf(pr_input, <<h, Len(pr_input)>>)

\* C28 as the parser behaves: the length field ends within data and the
\* payload ends where the packet does, at offset h + remaining length;
\* bytes of data after that are in no field.
C28_TopicAndPayloadToEndOfPacket ==
    (Returned("mqtt") /\ pr_result[1].tag = "Ok") =>
        /\ \E k \in 1..(Len(pr_input) - 1) : pr_input[k + 1] < 128
        /\ LET h == 1 + LengthFieldSize(pr_input)
               end == h + LengthFieldValue(pr_input, h - 1)
               packet == pr_result[1]
           IN  IF pr_input[1] = 16
               THEN /\ packet.fields = << <<h, h + 4>> >>
                    /\ packet.payload = <<h + 4, end>>
                    /\ end <= Len(pr_input)
               ELSE /\ packet.fields = <<>>
                    /\ packet.payload = <<h, end>>
                    /\ end <= Len(pr_input)

\* a packet with header 0x10, a two-byte length field, a topic, one byte
\* of payload and bytes after the packet has been parsed
C28_Witness ==
    /\ Returned("mqtt")
    /\ pr_result[1].tag = "Ok"
    /\ pr_input[1] = 16
    /\ LengthFieldSize(pr_input) = 2
    /\ pr_result[1].payload = <<7, 8>>
    /\ Len(pr_input) > 8

\* the CoAP version of the first byte
CoapVersion(data) == (data[1] \div 64) % 4

\* the offset of the first byte after the token
CoapTokenEnd(data) == 4 + (data[1] % 16)

\* the options and the payload of a CoAP packet are where the claim has
\* them: split at the first 0xFF after the token, if there is one
CoapFieldsAsClaimed(data, packet) ==
    LET te == CoapTokenEnd(data)
        after == {k \in (te + 1)..Len(data) : data[k] = 255}
    IN  /\ te <= Len(data)
        /\ Len(packet.fields) = 1
        /\ IF after # {}
           THEN /\ SliceOf(data, packet.fields[1]) =
                       SubSeq(data, te + 1, Least(after) - 1)
                /\ SliceOf(data, packet.payload) =
                       SubSeq(data, Least(after) + 1, Len(data))
           ELSE /\ SliceOf(data, packet.fields[1]) =
                       SubSeq(data, te + 1, Len(data))
                /\ SliceOf(data, packet.payload) = <<>>

\* C29 as stated: a CoAP parse succeeds only for version 1 and any other
\* version returns InvalidVersion; on success the token is the tkl bytes
\* after the 4-byte header, the options are the bytes from the token to
\* the first 0xFF after it and the payload every byte after that 0xFF, or
\* the options are all remaining bytes and the payload is empty.
C29_VersionOneElseInvalidVersion ==
    Returned("coap") =>
        /\ (pr_result[1].tag = "Ok") =>
               /\ CoapVersion(pr_input) = 1
               /\ CoapFieldsAsClaimed(pr_input, pr_result[1])
        /\ (pr_input # <<>> /\ CoapVersion(pr_input) # 1) =>
               pr_result[1] = ParseErr("InvalidVersion")

\* C29 as the parser behaves: the same, with InvalidVersion returned for
\* the buffers of at least 4 bytes; a shorter one is InsufficientData
\* whatever its version.
C29_VersionOneElseInvalidVersionOfHeader ==
    Returned("coap") =>
        /\ (pr_result[1].tag = "Ok") =>
               /\ CoapVersion(pr_input) = 1
               /\ CoapFieldsAsClaimed(pr_input, pr_result[1])
        /\ (Len(pr_input) >= 4 /\ CoapVersion(pr_input) # 1) =>
               pr_result[1] = ParseErr("InvalidVersion")
        /\ (Len(pr_input) < 4) =>
               pr_result[1] = ParseErr("InsufficientData")

\* a version 1 packet with a token holding 0xFF, an option byte, the
\* marker and a payload byte has been parsed
C29_Witness ==
    /\ Returned("coap")
    /\ pr_result[1].tag = "Ok"
    /\ pr_input = <<65, 2, 18, 52, 255, 7, 255, 7>>

\* the length field of a Modbus header is consistent with the buffer: it
\* counts the unit id and the function code, which the header holds, and
\* the bytes it counts are in the buffer
ModbusLengthFits(data) ==
    LET length == data[5] * 256 + data[6]
    IN  length >= 2 /\ 6 + length <= Len(data)

\* C30: Modbus parse returns MalformedPacket for every buffer of at least
\* 8 bytes whose protocolId is not 0, a typed error for every buffer whose
\* length field is inconsistent with the buffer, and a packet only when
\* protocolId is 0 and the declared length fits the buffer.
C30_ModbusRejectsInconsistentHeaders ==
    (Returned("modbus") /\ Len(pr_input) >= 8) =>
        /\ (pr_input[3] # 0 \/ pr_input[4] # 0) =>
               pr_result[1] = ParseErr("MalformedPacket")
        /\ ~ModbusLengthFits(pr_input) => pr_result[1].tag = "Err"
        /\ (pr_result[1].tag = "Ok") =>
               /\ pr_input[3] = 0
               /\ pr_input[4] = 0
               /\ ModbusLengthFits(pr_input)

(* ========================= the signature engine ======================= *)
(* vakthund-detection/src/signatures/mod.rs.  A pattern is a sequence of   *)
(* bytes; an automaton is the sequence of patterns it was built from.      *)

\* the pattern occurs in data ending at offset end
PatternEndsAt(pattern, data, end) ==
    /\ Len(pattern) <= end
    /\ SubSeq(data, end - Len(pattern) + 1, end) = pattern

\* matcher.find_overlapping_iter(data): every occurrence of every pattern,
\* as the pattern's index and the offset the occurrence ends at
FindOverlapping(patterns, data) ==
    {m \in (0..(Len(patterns) - 1)) \X (0..Len(data)) :
        PatternEndsAt(patterns[m[1] + 1], data, m[2])}

\* the scan of buffer_scan under the read guard: no match without an
\* automaton
ScanWith(matcher, data) ==
    IF matcher = None THEN {} ELSE FindOverlapping(matcher[1], data)

(* ------------- the signature engine shared by two threads ------------- *)

SigPatterns == {<<7>>, <<8>>, <<7, 8>>}

SigBuffers == {<<7, 8>>, <<8, 8>>, <<0>>}

PushPatternMutFront(patterns, pattern) == <<pattern>> \o patterns

\* patterns.push(pattern.to_string())
PushPattern(patterns, pattern) == Append(patterns, pattern)

RECURSIVE TotalBytes(_)
TotalBytes(patterns) ==
    IF patterns = <<>> THEN 0
    ELSE Len(Head(patterns)) + TotalBytes(Tail(patterns))

\* AhoCorasickBuilder::new().build(patterns) returns Err: the pattern set
\* is too large for an automaton
BuildFails(patterns) == TotalBytes(patterns) > MaxAutomatonBytes

ReadLockFreeMutNoLock == TRUE

\* self.matcher.read() can be acquired: no writer holds the lock
ReadLockFree == ~mat_writer

\* self.matcher.write() can be acquired: nobody holds the lock
WriteLockFree == ~mat_writer /\ mat_readers = 0

\* what a scan returns that reads the automaton while a store into it is
\* under way: not the matches of any automaton
TornScan == {<<-1, -1>>}

SigInit ==
    /\ BusIs(WithCapacity(1))
    /\ TasksIdle
    /\ SimIdle
    /\ PipeIdle
    /\ ClockIdle
    /\ LateIdle
    /\ ReplayIdle
    /\ ValIdle
    /\ ParseIdle
    /\ ProcIdle
    /\ sig_patterns = <<>>
    /\ sig_matcher = None
    /\ mat_writer = FALSE
    /\ mat_readers = 0
    /\ mat_torn = FALSE
    /\ installed = <<None>>
    /\ w_pc = "idle"
    /\ w_pattern = <<>>
    /\ w_built = None
    /\ w_before = [patterns |-> <<>>, matcher |-> None]
    /\ w_result = "none"
    /\ w_added = <<>>
    /\ w_calls = 0
    /\ s_pc = "idle"
    /\ s_data = <<>>
    /\ s_from = 0
    /\ s_result = {}
    /\ scan_log = <<>>

\* a call of pattern_add(pattern)
AddCall ==
    /\ w_pc = "idle"
    /\ w_calls < MaxAdds
    /\ w_pattern' \in SigPatterns
    /\ w_before' = [patterns |-> sig_patterns, matcher |-> sig_matcher]
    /\ w_result' = "pending"
    /\ w_calls' = w_calls + 1
    /\ w_pc' = "push"
    /\ UNCHANGED <<outsideSig, scannerVars, sig_patterns, sig_matcher,
                   mat_writer, mat_readers, mat_torn, installed, w_built,
                   w_added>>

\* pattern_add: { let mut patterns = self.patterns.write();
\* patterns.push(pattern.to_string()); }
AddPush ==
    /\ w_pc = "push"
    /\ sig_patterns' = PushPattern(sig_patterns, w_pattern)
    /\ w_pc' = "build"
    /\ UNCHANGED <<outsideSig, scannerVars, sig_matcher, mat_writer,
                   mat_readers, mat_torn, installed, w_pattern, w_built,
                   w_before, w_result, w_added, w_calls>>

\* rebuild_matcher: let patterns = self.patterns.read(); the build, and
\* `?` returning PatternError from pattern_add when it fails
AddBuild ==
    /\ w_pc = "build"
    /\ IF BuildFails(sig_patterns)
       THEN /\ w_result' = "Err"
            /\ w_pc' = "idle"
            /\ UNCHANGED w_built
       ELSE /\ w_built' = Some(sig_patterns)
            /\ w_pc' = "lock"
            /\ UNCHANGED w_result
    /\ UNCHANGED <<outsideSig, scannerVars, sig_patterns, sig_matcher,
                   mat_writer, mat_readers, mat_torn, installed, w_pattern,
                   w_before, w_added, w_calls>>

\* rebuild_matcher: self.matcher.write() is acquired and the store of
\* `*guard = Some(matcher)` begins
AddLockMatcher ==
    /\ w_pc = "lock"
    /\ WriteLockFree
    /\ mat_writer' = TRUE
    /\ mat_torn' = TRUE
    /\ w_pc' = "store"
    /\ UNCHANGED <<outsideSig, scannerVars, sig_patterns, sig_matcher,
                   mat_readers, installed, w_pattern, w_built, w_before,
                   w_result, w_added, w_calls>>

\* rebuild_matcher: the store is complete, the guard is dropped, Ok(())
AddStoreMatcher ==
    /\ w_pc = "store"
    /\ sig_matcher' = w_built
    /\ mat_torn' = FALSE
    /\ mat_writer' = FALSE
    /\ installed' = Append(installed, w_built)
    /\ w_result' = "Ok"
    /\ w_added' = Append(w_added,
                     [pattern |-> w_pattern,
                      index |-> Len(w_before.patterns),
                      installed_at |-> Len(installed) + 1])
    /\ w_pc' = "idle"
    /\ UNCHANGED <<outsideSig, scannerVars, sig_patterns, mat_readers,
                   w_pattern, w_built, w_before, w_calls>>

\* a call of buffer_scan(data)
ScanCall ==
    /\ s_pc = "idle"
    /\ Len(scan_log) < MaxScans
    /\ s_data' \in SigBuffers
    /\ s_from' = Len(installed)
    /\ s_pc' = "acquire"
    /\ UNCHANGED <<outsideSig, adderVars, sig_patterns, sig_matcher,
                   mat_writer, mat_readers, mat_torn, installed, s_result,
                   scan_log>>

\* buffer_scan: let matcher_read_guard = self.matcher.read()
ScanAcquire ==
    /\ s_pc = "acquire"
    /\ ReadLockFree
    /\ mat_readers' = mat_readers + 1
    /\ s_pc' = "scan"
    /\ UNCHANGED <<outsideSig, adderVars, sig_patterns, sig_matcher,
                   mat_writer, mat_torn, installed, s_data, s_from,
                   s_result, scan_log>>

\* buffer_scan: the map_or over the guarded Option and the collect
ScanRun ==
    /\ s_pc = "scan"
    /\ s_result' = IF mat_torn THEN TornScan
                   ELSE ScanWith(sig_matcher, s_data)
    /\ s_pc' = "release"
    /\ UNCHANGED <<outsideSig, adderVars, sig_patterns, sig_matcher,
                   mat_writer, mat_readers, mat_torn, installed, s_data,
                   s_from, scan_log>>

\* buffer_scan: the guard is dropped and the matches are returned
ScanRelease ==
    /\ s_pc = "release"
    /\ mat_readers' = mat_readers - 1
    /\ scan_log' = Append(scan_log,
                     [data |-> s_data, result |-> s_result,
                      from |-> s_from, to |-> Len(installed)])
    /\ s_pc' = "idle"
    /\ UNCHANGED <<outsideSig, adderVars, sig_patterns, sig_matcher,
                   mat_writer, mat_torn, installed, s_data, s_from,
                   s_result>>

SigNext ==
    \/ AddCall
    \/ AddPush
    \/ AddBuild
    \/ AddLockMatcher
    \/ AddStoreMatcher
    \/ ScanCall
    \/ ScanAcquire
    \/ ScanRun
    \/ ScanRelease

SpecSig == SigInit /\ [][SigNext]_vars


\* the scans that have read the automaton: the returned ones and the one
\* that holds its result and has yet to drop the guard
ScansDone ==
    {scan_log[k] : k \in 1..Len(scan_log)} \cup
    (IF s_pc = "release"
     THEN {[data |-> s_data, result |-> s_result,
            from |-> s_from, to |-> Len(installed)]}
     ELSE {})

\* the pattern indices a scan returned
IndicesOf(result) == {m[1] : m \in result}

Contains(data, pattern) ==
    \E end \in 1..Len(data) : PatternEndsAt(pattern, data, end)

\* C18: a buffer_scan that overlaps pattern_add calls returns exactly the
\* matches of one of the automata installed between its call and its
\* return (the one before the add or the one with the new pattern), never
\* those of a half-stored automaton, and never those of the absent
\* automaton when an automaton was installed before the scan was called.
C18_ScanSeesOldOrNewAutomaton ==
    \A scan \in ScansDone :
        \E j \in scan.from..scan.to :
            scan.result = ScanWith(installed[j], scan.data)

\* a returned scan during which an add installed its automaton, and whose
\* matches are those of the new automaton and not of the old one
C18_Witness ==
    \E k \in 1..Len(scan_log) :
        /\ scan_log[k].from < scan_log[k].to
        /\ scan_log[k].result = ScanWith(installed[scan_log[k].to],
                                         scan_log[k].data)
        /\ scan_log[k].result # ScanWith(installed[scan_log[k].from],
                                         scan_log[k].data)

\* C19: when the rebuild fails, pattern_add returns an error and the
\* engine is as it was before the call: the automaton is the one installed
\* before and the pattern set does not hold the rejected pattern.
C19_FailedAddLeavesEngineUnchanged ==
    (w_result = "Err") =>
        /\ sig_matcher = w_before.matcher
        /\ sig_patterns = w_before.patterns

\* C20: once pattern_add(p) has returned Ok with p at index i, every scan
\* called afterwards of a buffer that contains p reports i, and reports i
\* only where p occurs (no index changes); and of two scans of the same
\* buffer, the later called one reports every match the earlier returned
\* one reported.
C20_AddedPatternsKeepMatching ==
    /\ \A a \in 1..Len(w_added) : \A scan \in ScansDone :
        (scan.from >= w_added[a].installed_at) =>
            /\ Contains(scan.data, w_added[a].pattern)
                   => w_added[a].index \in IndicesOf(scan.result)
            /\ \A m \in scan.result :
                   (m[1] = w_added[a].index)
                       => PatternEndsAt(w_added[a].pattern, scan.data, m[2])
    /\ \A k1, k2 \in 1..Len(scan_log) :
        (/\ scan_log[k1].data = scan_log[k2].data
         /\ scan_log[k1].to <= scan_log[k2].from)
            => scan_log[k1].result \subseteq scan_log[k2].result

\* two scans of one buffer with two successful adds of different patterns,
\* one before the first scan and one between the scans: the second scan
\* reports the first scan's matches and the new pattern's index
C20_Witness ==
    \E k1, k2 \in 1..Len(scan_log) : \E a1, a2 \in 1..Len(w_added) :
        /\ scan_log[k1].data = scan_log[k2].data
        /\ w_added[a1].installed_at <= scan_log[k1].from
        /\ scan_log[k1].to < w_added[a2].installed_at
        /\ w_added[a2].installed_at <= scan_log[k2].from
        /\ w_added[a1].index \in IndicesOf(scan_log[k1].result)
        /\ w_added[a2].index \in IndicesOf(scan_log[k2].result)
        /\ w_added[a2].index \notin IndicesOf(scan_log[k1].result)
        /\ scan_log[k1].result \subseteq scan_log[k2].result


(* ========================= the event processor ======================== *)
(* spawn_event_processor, DefaultEventProcessor::process and               *)
(* handle_detection_results (vakthund-engine/src/engine/runtime.rs), with  *)
(* the Firewall of vakthund-prevention/src/firewall.rs                     *)

ParserOrderMutCoapFirst == <<"coap", "mqtt", "modbus">>

\* let parsers = [Mqtt, Coap, Modbus]; for parser in &parsers
ParserOrder == <<"mqtt", "coap", "modbus">>

\* p.parse(&event.payload) of the parser with this name
RunParser(name, data, checks) ==
    IF name = "mqtt" THEN MqttParse(data, checks)
    ELSE IF name = "coap" THEN CoapParse(data)
    ELSE ModbusParse(data)

ShouldBlockMutAlways(matches) == TRUE

\* handle_detection_results: `if matches.is_empty() { return; }`, then
\* Firewall::new("eth0"), which returns Ok, and block_ip_and_log
ShouldBlock(matches) == matches # {}

\* Firewall::block_ip: the no-op implementation, Ok(())
BlockIp == "Ok"

\* one step taken for an event
Step(step, who, tag, slice) ==
    [step |-> step, who |-> who, tag |-> tag, slice |-> slice]

\* payloads: an MQTT packet carrying the byte 7 and one that does not, a
\* CoAP and a Modbus packet carrying it that the parsers before reject, a
\* payload every parser rejects, a Modbus header with length 0 and an MQTT
\* packet with a five-byte length
ProcPayloads ==
    {<<48, 2, 7, 7>>,
     <<48, 1, 0>>,
     <<64, 127, 0, 1, 255, 7>>,
     <<0, 127, 0, 0, 0, 3, 1, 3, 7>>,
     <<0>>,
     <<0, 127, 0, 0, 0, 0, 1, 3>>,
     <<16, 255, 255, 255, 255, 127>>}

\* the automaton of the processor's engine: none (SignatureEngine::new())
\* or one built from the pattern <<7>>
ProcMatchers == {None, Some(<< <<7>> >>)}

ProcInit ==
    /\ BusIs(WithCapacity(1))
    /\ TasksIdle
    /\ SimIdle
    /\ PipeIdle
    /\ ClockIdle
    /\ LateIdle
    /\ ReplayIdle
    /\ ValIdle
    /\ ParseIdle
    /\ SigIdle
    /\ proc_queue \in SeqsUpTo(ProcPayloads, MaxProcEvents)
    /\ proc_matcher \in ProcMatchers
    /\ proc_checks \in BOOLEAN
    /\ proc_pc = "recv"
    /\ proc_event = None
    /\ proc_tried = 0
    /\ proc_packet = None
    /\ proc_matches = {}
    /\ proc_trace = <<>>
    /\ proc_done = <<>>

\* process has returned Ok(()) for the event in hand (or panicked)
Finished(trace, result) ==
    Append(proc_done,
           [payload |-> proc_event[1], trace |-> trace, result |-> result])

\* spawn_event_processor: match event_bus.recv() { Some(event) => ..,
\* None => sleep(10 ms) }
ProcRecv ==
    /\ proc_pc = "recv"
    /\ IF proc_queue = <<>>
       THEN /\ proc_pc' = "sleep"
            /\ UNCHANGED <<proc_queue, proc_event, proc_tried, proc_trace>>
       ELSE /\ proc_pc' = "parse"
            /\ proc_event' = Some(Head(proc_queue))
            /\ proc_queue' = Tail(proc_queue)
            /\ proc_tried' = 0
            /\ proc_trace' = <<>>
    /\ UNCHANGED <<outsideProc, proc_matcher, proc_checks, proc_packet,
                   proc_matches, proc_done>>

\* spawn_event_processor: the sleep is over
ProcWake ==
    /\ proc_pc = "sleep"
    /\ proc_pc' = "recv"
    /\ UNCHANGED <<outsideProc, proc_queue, proc_matcher, proc_checks,
                   proc_event, proc_tried, proc_packet, proc_matches,
                   proc_trace, proc_done>>

\* process: one iteration of `for parser in &parsers`: the parser accepts
\* the payload, or rejects it (after the last one: warn and return Ok(())),
\* or panics and takes the task with it
ProcParse ==
    /\ proc_pc = "parse"
    /\ LET name == ParserOrder[proc_tried + 1]
           out == RunParser(name, proc_event[1], proc_checks)
           trace == Append(proc_trace,
                           Step("parse", name, out.tag, out.payload))
       IN  /\ proc_trace' = trace
           /\ IF out.tag = "Ok"
              THEN /\ proc_packet' = Some(out)
                   /\ proc_pc' = "scan"
                   /\ UNCHANGED <<proc_tried, proc_done>>
              ELSE IF out.tag = "Panic"
              THEN /\ proc_pc' = "panicked"
                   /\ proc_done' = Finished(trace, "Panic")
                   /\ UNCHANGED <<proc_tried, proc_packet>>
              ELSE /\ proc_tried' = proc_tried + 1
                   /\ UNCHANGED proc_packet
                   /\ IF proc_tried + 1 = Len(ParserOrder)
                      THEN /\ proc_pc' = "recv"
                           /\ proc_done' = Finished(trace, "Ok")
                      ELSE /\ proc_pc' = "parse"
                           /\ UNCHANGED proc_done
    /\ UNCHANGED <<outsideProc, proc_queue, proc_matcher, proc_checks,
                   proc_event, proc_matches>>

\* process: let matches = self.signature_engine.buffer_scan(packet.payload())
ProcScan ==
    /\ proc_pc = "scan"
    /\ LET matches == ScanWith(proc_matcher,
                               SliceOf(proc_event[1], proc_packet[1].payload))
       IN  /\ proc_matches' = matches
           /\ proc_trace' = Append(proc_trace,
                 Step("scan", "signature_engine",
                      IF matches = {} THEN "empty" ELSE "matched",
                      proc_packet[1].payload))
    /\ proc_pc' = "handle"
    /\ UNCHANGED <<outsideProc, proc_queue, proc_matcher, proc_checks,
                   proc_event, proc_tried, proc_packet, proc_done>>

\* process: handle_detection_results(matches, protocol).await; return Ok(())
ProcHandle ==
    /\ proc_pc = "handle"
    /\ LET trace == IF ShouldBlock(proc_matches)
                    THEN Append(proc_trace,
                                Step("block", "firewall", BlockIp, <<0, 0>>))
                    ELSE proc_trace
       IN  /\ proc_trace' = trace
           /\ proc_done' = Finished(trace, "Ok")
    /\ proc_pc' = "recv"
    /\ UNCHANGED <<outsideProc, proc_queue, proc_matcher, proc_checks,
                   proc_event, proc_tried, proc_packet, proc_matches>>

ProcNext ==
    \/ ProcRecv
    \/ ProcWake
    \/ ProcParse
    \/ ProcScan
    \/ ProcHandle

SpecProc == ProcInit /\ [][ProcNext]_vars


(* --------------------- claims on the event processor ------------------ *)

\* the steps taken for each event: the finished events, and the one in hand
ProcTraces ==
    {proc_done[k].trace : k \in 1..Len(proc_done)} \cup {proc_trace}

StepsOf(trace, step) == SelectSeq(trace, LAMBDA x : x.step = step)

\* C15: no per-event failure stops the pipeline: the processor returns
\* success for every event, also one that every parser rejects, and the
\* consumer task stays alive to process the later events.
C15_NoEventStopsThePipeline ==
    /\ proc_pc # "panicked"
    /\ \A k \in 1..Len(proc_done) : proc_done[k].result = "Ok"

\* C16: for each event the parsers are tried in the order MQTT, CoAP,
\* Modbus up to the first that succeeds; only that packet's payload is
\* scanned, at most once, and nothing is scanned when all three fail.
C16_FirstParserWinsOneScan ==
    \A trace \in ProcTraces :
        LET parses == StepsOf(trace, "parse")
            scans == StepsOf(trace, "scan")
        IN  /\ Len(parses) <= 3
            /\ \A k \in 1..Len(parses) :
                  /\ parses[k].who = <<"mqtt", "coap", "modbus">>[k]
                  /\ (k < Len(parses)) => (parses[k].tag = "Err")
            /\ Len(scans) <= 1
            /\ (scans # <<>>) =>
                  /\ parses # <<>>
                  /\ parses[Len(parses)].tag = "Ok"
                  /\ scans[1].slice = parses[Len(parses)].slice
                  /\ trace[Len(parses) + 1].step = "scan"
            /\ (Len(parses) = 3 /\ parses[3].tag = "Err") => (scans = <<>>)

\* an event MQTT rejected and CoAP accepted has been scanned and finished
\* without Modbus being tried
C16_Witness ==
    \E k \in 1..Len(proc_done) :
        LET parses == StepsOf(proc_done[k].trace, "parse")
        IN  /\ Len(parses) = 2
            /\ parses[1].tag = "Err"
            /\ parses[2].tag = "Ok"
            /\ Len(StepsOf(proc_done[k].trace, "scan")) = 1

\* C17: for each event the IP block is invoked only after that event's
\* scan, and if and only if the scan returned at least one match; an event
\* with no match, or one no parser accepted, triggers no block.
C17_BlockOnlyAfterMatchingScan ==
    /\ \A trace \in ProcTraces :
          /\ Len(StepsOf(trace, "block")) <= 1
          /\ \A j \in 1..Len(trace) :
                (trace[j].step = "block") =>
                    \E i \in 1..(j - 1) :
                        trace[i].step = "scan" /\ trace[i].tag = "matched"
    /\ \A k \in 1..Len(proc_done) :
          (proc_done[k].result = "Ok") =>
              ((StepsOf(proc_done[k].trace, "block") # <<>>)
                  <=> (\E i \in 1..Len(proc_done[k].trace) :
                          /\ proc_done[k].trace[i].step = "scan"
                          /\ proc_done[k].trace[i].tag = "matched"))

\* one event was finished with a block after its matching scan, and another
\* with a scan that matched nothing and no block
C17_Witness ==
    /\ \E k \in 1..Len(proc_done) :
          StepsOf(proc_done[k].trace, "block") # <<>>
    /\ \E k \in 1..Len(proc_done) :
          /\ StepsOf(proc_done[k].trace, "block") = <<>>
          /\ StepsOf(proc_done[k].trace, "scan") # <<>>


(* ============================ the shared clock ======================== *)

\* the threads holding a clone of the clock
ClockThreads == {1, 2}

\* VirtualClock::new(seed): the simulator passes the run seed, any u64
ClockSeeds == {0, SimSeed, U64Wrap - 2, U64Wrap - 1}

\* advance(ns): ns of the calls
ClockDelays == {0, 1, 2}

ClockInit ==
    /\ BusIs(WithCapacity(1))
    /\ TasksIdle
    /\ SimIdle
    /\ PipeIdle
    /\ ReplayIdle
    /\ ValIdle
    /\ ParseIdle
    /\ ProcIdle
    /\ SigIdle
    /\ LateIdle
    /\ clk_seed \in ClockSeeds
    /\ clk_offset = ClockNew(clk_seed)
    /\ clk_hist = [t \in ClockThreads |-> <<>>]

\* thread t calls advance(ns) on its clone: one fetch_add on the shared
\* counter
ClockThreadAdvance(t) ==
    /\ Len(clk_hist[t]) < MaxClockOps
    /\ \E ns \in ClockDelays :
        /\ clk_offset' = ClockAdvance(clk_offset, ns)
        /\ clk_hist' = [clk_hist EXCEPT
                           ![t] = Append(@, [op |-> "advance", ns |-> ns])]
    /\ UNCHANGED <<outsideClock, clk_seed>>

\* thread t calls now_ns() on its clone: one load of the shared counter
ClockThreadNow(t) ==
    /\ Len(clk_hist[t]) < MaxClockOps
    /\ clk_hist' = [clk_hist EXCEPT
                       ![t] = Append(@, [op |-> "now",
                                         ns |-> ClockNow(clk_offset)])]
    /\ UNCHANGED <<outsideClock, clk_seed, clk_offset>>

ClockNext ==
    \/ \E t \in ClockThreads : ClockThreadAdvance(t)
    \/ \E t \in ClockThreads : ClockThreadNow(t)

SpecClock == ClockInit /\ [][ClockNext]_vars

(* ------------------------- claims on the clock ------------------------ *)

\* the sum of the delays of the advance calls among hist[from..to]
RECURSIVE Advanced(_, _, _)
Advanced(hist, from, to) ==
    IF from > to THEN 0
    ELSE (IF hist[from].op = "advance" THEN hist[from].ns ELSE 0)
         + Advanced(hist, from + 1, to)

\* the sum of the delays of every completed advance call
AllAdvanced ==
    Advanced(clk_hist[1], 1, Len(clk_hist[1]))
    + Advanced(clk_hist[2], 1, Len(clk_hist[2]))

C25_ReadingsNeverDecrease ==
    \A t \in ClockThreads :
        \A i, j \in 1..Len(clk_hist[t]) :
            (i < j /\ clk_hist[t][i].op = "now" /\ clk_hist[t][j].op = "now")
                => clk_hist[t][j].ns >=
                       clk_hist[t][i].ns + Advanced(clk_hist[t], i, j)

(* =========================== hash validation ========================== *)
(* SimulationRuntime::validate_scenario_hash (engine/runtime.rs) and the   *)
(* end of run_simulation_mode (runtime.rs)                                 *)

\* the hashes a run can compute or be given
HashSet ==
    {FinalizeHash(<<>>), FinalizeHash(Dropped),
     FinalizeHash(Dropped \o Dropped)}

\* let final_hash = "replay_dummy_hash".to_string(): the literal the replay
\* branch reports, which is the hash of no stream
ReplayDummyHash == [blake3_hex_of |-> <<"replay_dummy_hash">>]

\* The inputs of a run that reaches the end: "scenario" is a call of
\* validate_scenario_hash(scenario, actual_hash), whose expected hash is
\* scenario.expected_hash; "simulation" and "replay" are the two branches of
\* run_simulation_mode, whose expected hash is the optional validate_hash.
ValInputs ==
    {in \in [mode : {"scenario", "simulation", "replay"},
             expected : {None} \cup {Some(h) : h \in HashSet},
             actual : HashSet \cup {ReplayDummyHash}] :
        /\ (in.mode = "scenario") => (in.expected # None)
        /\ (in.mode = "replay") <=> (in.actual = ReplayDummyHash)}

ValStart(in) ==
    /\ val_mode' = in.mode
    /\ val_expected' = in.expected
    /\ val_actual' = in.actual
    /\ val_result' = "pending"
    /\ bug_reports_before' = bug_reports
    /\ val_runs' = val_runs + 1

ValInit ==
    /\ BusIs(WithCapacity(1))
    /\ TasksIdle
    /\ SimIdle
    /\ PipeIdle
    /\ ClockIdle
    /\ LateIdle
    /\ ReplayIdle
    /\ ParseIdle
    /\ ProcIdle
    /\ SigIdle
    /\ \E in \in ValInputs :
          /\ val_mode = in.mode
          /\ val_expected = in.expected
          /\ val_actual = in.actual
    /\ val_result = "pending"
    /\ bug_reports = 0
    /\ bug_reports_before = 0
    /\ val_runs = 1

\* validate_scenario_hash: on a mismatch record_bug_report writes the file
\* (a failed write panics) and pushes its name, and the call returns
\* Err(Validation); otherwise Ok(())
ValidateScenarioHash ==
    /\ val_mode = "scenario"
    /\ val_result = "pending"
    /\ IF val_expected[1] # val_actual
       THEN \E write_ok \in BOOLEAN :
               IF write_ok
               THEN /\ bug_reports' = bug_reports + 1
                    /\ val_result' = "Err"
               ELSE /\ bug_reports' = bug_reports
                    /\ val_result' = "panic"
       ELSE /\ bug_reports' = bug_reports
            /\ val_result' = "Ok"
    /\ UNCHANGED <<outsideVal, val_mode, val_expected, val_actual,
                   bug_reports_before, val_runs>>

\* run_simulation_mode, simulation branch: if let Some(expected) =
\* validate_hash { if final_hash != expected { generate_bug_report(..);
\* return Err(..) } }; Ok(()).  generate_bug_report only prints when it
\* cannot create or write the file.
SimulationModeValidate ==
    /\ val_mode = "simulation"
    /\ val_result = "pending"
    /\ IF val_expected # None /\ val_actual # val_expected[1]
       THEN /\ \E write_ok \in BOOLEAN :
                  bug_reports' = IF write_ok THEN bug_reports + 1
                                 ELSE bug_reports
            /\ val_result' = "Err"
       ELSE /\ bug_reports' = bug_reports
            /\ val_result' = "Ok"
    /\ UNCHANGED <<outsideVal, val_mode, val_expected, val_actual,
                   bug_reports_before, val_runs>>

\* run_simulation_mode, replay branch: the loop over the scenario, the
\* dummy hash, log_event and Ok(()); validate_hash is not looked at
ReplayModeFinish ==
    /\ val_mode = "replay"
    /\ val_result = "pending"
    /\ val_result' = "Ok"
    /\ UNCHANGED <<outsideVal, val_mode, val_expected, val_actual,
                   bug_reports, bug_reports_before, val_runs>>

\* the next run of the same process, after one that returned
ValNextRun ==
    /\ val_result \in {"Ok", "Err"}
    /\ val_runs < MaxValRuns
    /\ \E in \in ValInputs : ValStart(in)
    /\ UNCHANGED <<outsideVal, bug_reports>>

ValNext ==
    \/ ValidateScenarioHash
    \/ SimulationModeValidate
    \/ ReplayModeFinish
    \/ ValNextRun

SpecVal == ValInit /\ [][ValNext]_vars

(* ---------------------- claims on hash validation --------------------- *)

\* C13: a run that was given an expected hash returns Ok exactly when the
\* hash it computed equals it; on a mismatch exactly one bug report is
\* recorded and the run returns an error.
C13_ValidationOkIffHashesEqual ==
    (val_result \notin {"none", "pending"} /\ val_expected # None) =>
        /\ (val_result = "Ok") <=> (val_expected = Some(val_actual))
        /\ (val_expected # Some(val_actual)) =>
              /\ val_result = "Err"
              /\ bug_reports = bug_reports_before + 1


(* ----------------------- claims on the simulator ---------------------- *)

\* the events a run emitted: the Some values simulate_event returned
Emitted(r) == SelectSeq(runs[r].rets, LAMBDA x : x # None)

BothRunsFinished == run_no = 2 /\ run_pc = "finished"

\* C5: two runs constructed with the same seed, latency, jitter, chaos flag
\* and loss model (and the same bus attachment) and given the same
\* event_count emit the same events, pass through the same clock values and
\* return the same hash.
C5_SameParametersSameRun ==
    (BothRunsFinished /\ sim_bus[1] = sim_bus[2]) =>
        /\ Emitted(1) = Emitted(2)
        /\ runs[1].clocks = runs[2].clocks
        /\ runs[1].hash = runs[2].hash

\* the byte stream a run's hasher should have absorbed: each emitted event's
\* body, and the sentinel for each drop, in generation order
RECURSIVE AbsorbedStream(_)
AbsorbedStream(rets) ==
    IF rets = <<>> THEN <<>>
    ELSE (IF Head(rets) = None THEN Dropped ELSE Head(rets)[1].payload)
         \o AbsorbedStream(Tail(rets))

\* C9: the hash absorbs the body of every emitted event in generation
\* order, with or without a bus: a run with a bus and a run without one
\* that generate the same events return the same hash.
C9_HashAbsorbsBodiesWithOrWithoutBus ==
    /\ \A r \in 1..2 :
          (run_pc = "finished" /\ r = run_no) =>
              runs[r].hash = Some(FinalizeHash(AbsorbedStream(runs[r].rets)))
    /\ (BothRunsFinished /\ sim_bus[1] # sim_bus[2]
          /\ runs[1].rets = runs[2].rets) =>
              runs[1].hash = runs[2].hash

AllDropped(r) == \A k \in 1..Len(runs[r].rets) : runs[r].rets[k] = None

\* C10: a simulate_event call whose event the loss model drops folds
\* "DROPPED" into the hasher and returns None, pushes nothing and leaves the
\* clock alone; a finished run of n events that were all dropped has
\* absorbed exactly n sentinels and delivered no event.
C10_DropAbsorbsSentinelOnly ==
    /\ [][(sim_i' = sim_i + 1 /\ run_pc = "running"
              /\ runs'[run_no].rets[sim_i'] = None) =>
             /\ sim'.state_hasher = sim.state_hasher \o <<"DROPPED">>
             /\ sim'.clock = sim.clock
             /\ buffer' = buffer /\ head' = head /\ tail' = tail
             /\ runs'[run_no].pushed = runs[run_no].pushed]_vars
    /\ [](\A r \in 1..2 :
             (run_pc = "finished" /\ r = run_no /\ AllDropped(r)) =>
                 /\ runs[r].hash =
                        Some(FinalizeHash([k \in 1..sim_params.event_count
                                              |-> "DROPPED"]))
                 /\ runs[r].pushed = <<>>
                 /\ runs[r].delivered = <<>>
                 /\ IsEmpty(head, tail))

\* a run with a bus attached has finished with every event dropped
C10_Witness ==
    /\ run_pc = "finished"
    /\ sim_bus[run_no]
    /\ sim_params.loss = Probabilistic(100)
    /\ Len(runs[run_no].rets) = sim_params.event_count
    /\ sim_params.event_count >= 2
    /\ AllDropped(run_no)


(* ------------------------- claims on the bus -------------------------- *)

\* the number of times e occurs in s
Count(s, e) == Cardinality({i \in 1..Len(s) : s[i] = e})

\* C1: with one producer and one consumer, under every interleaving of the
\* load, slot-access and store steps, the events returned by successful pops
\* are a prefix of the events accepted by successful pushes, in order.
C1_FifoPrefix == IsPrefixOf(received, accepted)

\* three events went through a bus of capacity 2 (the ring wrapped)
C1_Witness == capacity = 2 /\ Len(received) >= 3

\* C2: in every reachable state 0 <= head - tail <= N, head counting the
\* accepted pushes and tail the successful pops.
C2_HeadTailBounded ==
    new_result = "Ok" =>
        /\ head = Len(accepted)
        /\ tail = Len(received)
        /\ 0 <= head - tail
        /\ head - tail <= capacity

\* the bus is full after the ring has wrapped
C2_Witness == capacity = 2 /\ head - tail = capacity /\ tail >= 1

\* C3: a push returns QueueFull iff N events are enqueued when it reads
\* tail, and a failing push leaves head, tail, every slot and the accepted
\* events unchanged.
C3_QueueFullIffFull ==
    [][(p_pc = "ld_tail" /\ p_pc' # "ld_tail") =>
          /\ (p_result' = "QueueFull") <=> (head - tail >= capacity)
          /\ (p_result' = "QueueFull") =>
                 /\ head' = head
                 /\ tail' = tail
                 /\ buffer' = buffer
                 /\ accepted' = accepted]_vars

\* a non-blocking send has just failed on a full bus of capacity 2
C3_Witness ==
    /\ p_result = "QueueFull"
    /\ p_kind = "send"
    /\ p_pc = "idle"
    /\ capacity = 2
    /\ head - tail = capacity

\* the events handed to send_blocking so far whose call has returned
BlockingReturned ==
    IF p_pc # "idle" /\ p_kind = "blocking"
    THEN SubSeq(blocking_calls, 1, Len(blocking_calls) - 1)
    ELSE blocking_calls

InBlocking(i) == p_pc # "idle" /\ p_kind = "blocking" /\ p_ev = i

\* C4: with the consumer calling recv forever, every send_blocking call
\* returns, a returned call has enqueued its event exactly once, and the
\* events sent with send_blocking are all received, in the order sent.
C4_SendBlockingNeverDrops ==
    /\ [](\A i \in 1..Len(BlockingReturned) :
              Count(accepted, BlockingReturned[i]) = 1)
    /\ \A i \in 1..MaxEvents : InBlocking(i) ~> (p_pc = "idle")
    /\ (new_result = "Ok") =>
       <>[](/\ p_pc = "idle"
            /\ next_id > MaxEvents
            /\ SelectSeq(received, LAMBDA e :
                   \E i \in 1..Len(blocking_calls) : blocking_calls[i] = e)
               = blocking_calls)

\* more events than the capacity went through send_blocking and arrived
C4_Witness ==
    /\ capacity = 2
    /\ Len(blocking_calls) = 3
    /\ received = blocking_calls
    /\ p_pc = "idle"

\* 1, 2, 4, ...: the powers of two up to 2^MaxCapacity
PowersOfTwo == {2^k : k \in 0..MaxCapacity}

\* C21: with_capacity(n) fails with InvalidCapacity for every n that is not
\* a power of two, 0 included; for a power of two it returns a bus of
\* exactly n slots, and before the first send that bus is empty: head =
\* tail = 0 and no slot holds an event.
C21_InvalidCapacityUnlessPowerOfTwo ==
    /\ (requested \notin PowersOfTwo) => new_result = "InvalidCapacity"
    /\ (requested \in PowersOfTwo) =>
           /\ new_result = "Ok"
           /\ DOMAIN buffer = 0..(requested - 1)
           /\ Cardinality(DOMAIN buffer) = requested
           /\ (next_id = 1) =>
                  /\ head = 0
                  /\ tail = 0
                  /\ \A i \in DOMAIN buffer : buffer[i] = None

\* with_capacity(3) has failed
C21_Witness == requested = 3 /\ new_result = "InvalidCapacity"

\* C22: recv returns None exactly when head = tail at its read of head,
\* and then changes nothing of the bus; otherwise it returns the oldest
\* event enqueued and not yet received and advances tail by one. A recv in
\* progress can always take its next step: it waits for nothing.
C22_RecvNoneIffEmpty ==
    /\ [][(c_pc = "ld_head" /\ c_pc' # "ld_head") =>
             /\ (c_pc' = "idle" /\ c_result' = None) <=> (head = tail)
             /\ (head = tail) => ringVars' = ringVars
             /\ (head # tail) => c_pc' = "take"]_vars
    /\ [][(c_pc = "st_tail" /\ c_pc' = "idle") =>
             /\ c_result' = Some(accepted[tail + 1])
             /\ tail' = tail + 1
             /\ head' = head]_vars
    /\ [](c_pc # "idle" => ENABLED Consumer)

\* a recv has returned None on a bus that events went through before
C22_Witness ==
    /\ c_pc = "idle"
    /\ c_result = None
    /\ c_head = c_tail
    /\ Len(received) >= 2

\* C23: a bus of capacity 1 accepts a push exactly when every accepted
\* event has been returned by a recv, so at most one event is enqueued and
\* a push made while it is returns QueueFull; the events are received in
\* push order.
C23_CapacityOneHoldsOneEvent ==
    /\ [](capacity = 1 =>
             /\ Len(accepted) <= Len(received) + 1
             /\ IsPrefixOf(received, accepted))
    /\ [][(capacity = 1 /\ p_pc = "ld_tail" /\ p_pc' # "ld_tail") =>
             /\ (p_pc' = "write") <=> (Len(accepted) = Len(received))
             /\ (p_pc' # "write") => p_result' = "QueueFull"]_vars

\* on a bus of capacity 1 that one event went through, a send has just
\* returned QueueFull while the second event is enqueued
C23_Witness ==
    /\ capacity = 1
    /\ Len(received) = 1
    /\ Len(accepted) = 2
    /\ p_pc = "idle"
    /\ p_kind = "send"
    /\ p_result = "QueueFull"

\* ------------------------------------------------------------------
\* generate_fuzz_config (vakthund-config, simulator.rs)
\* ------------------------------------------------------------------

\* the values an rng.random_range(lo..hi) call can return: the range
\* excludes hi
RandomRange(lo, hi) == lo..(hi - 1)

\* the larger of two numbers (std::cmp::max)
CmpMax(a, b) == IF a >= b THEN a ELSE b

\* the values of a range the draws are taken from: both ends of the range
\* and the values next to the thresholds of the function and of its
\* documented intervals
FuzzSamples == {0, 1, 99, 100, 101, 199, 200, 499, 500, 501, 999, 1000,
                1001, 1999, 2000}

Sampled(range) == range \cap FuzzSamples

\* the seeds and the max_events the function is called with
FuzzSeeds == {0, SimSeed}

FuzzMaxEvents == {100, 500, 1000, 1001, 2000}

\* fault_probability is drawn from 0.0..0.5; it is kept in thousandths
FaultPerMilleHigh == 500

\* the configurations generate_fuzz_config(seed, max_events) can return,
\* one per outcome of its draws: the event count from
\* 100..max(1000, max_events), the fault probability, the latency from
\* 0..1000, the jitter from 0..200, drawn again from 0..100 when the
\* latency is above 500 and the jitter above 100
GenerateFuzzConfig(seed, max_events) ==
    { [seed |-> seed,
       event_count |-> event_count,
       fault_probability |-> fault_probability,
       latency_ms |-> latency_ms,
       jitter_ms |-> IF latency_ms > 500 /\ jitter_ms > 100
                     THEN redrawn ELSE jitter_ms] :
        event_count \in Sampled(RandomRange(100, CmpMax(1000, max_events))),
        fault_probability \in Sampled(RandomRange(0, FaultPerMilleHigh)),
        latency_ms \in Sampled(RandomRange(0, 1000)),
        jitter_ms \in Sampled(RandomRange(0, 200)),
        redrawn \in Sampled(RandomRange(0, 100)) }

\* everything but the generate_fuzz_config call
outsideFuzz == <<coreVars, replayVars, valVars, parseVars, procVars,
                 sigVars, clockVars, engVars, concAddVars, poolVars,
                 concReplayVars>>

FuzzInit ==
    /\ BusIs(WithCapacity(1))
    /\ TasksIdle
    /\ SimIdle
    /\ PipeIdle
    /\ ReplayIdle
    /\ ValIdle
    /\ ParseIdle
    /\ ProcIdle
    /\ SigIdle
    /\ ClockIdle
    /\ EngIdle
    /\ ConcAddIdle
    /\ PoolIdle
    /\ ConcReplayIdle
    /\ fz_pc = "call"
    /\ fz_seed \in FuzzSeeds
    /\ fz_max_events \in FuzzMaxEvents
    /\ fz_config = <<>>

\* the call runs and returns a configuration
FuzzGenerate ==
    /\ fz_pc = "call"
    /\ fz_config' \in GenerateFuzzConfig(fz_seed, fz_max_events)
    /\ fz_pc' = "done"
    /\ UNCHANGED <<fz_seed, fz_max_events, outsideFuzz>>

FuzzNext == FuzzGenerate

SpecFuzz == FuzzInit /\ [][FuzzNext]_vars

\* C31: for every seed and every max_events >= 100, generate_fuzz_config
\* returns a configuration with event_count in [100, max_events],
\* latency_ms in [0, 1000], jitter_ms in [0, 200] and a fault probability
\* in [0, 0.5].
C31_FuzzConfigWithinDocumentedRanges ==
    (fz_pc = "done" /\ fz_max_events >= 100) =>
        /\ fz_config.event_count \in 100..fz_max_events
        /\ fz_config.latency_ms \in 0..1000
        /\ fz_config.jitter_ms \in 0..200
        /\ fz_config.fault_probability \in 0..FaultPerMilleHigh

\* C32: the slot used for the event with counter value c is c & (N - 1).
\* In every interleaving the producer writes only a slot that holds no
\* event waiting to be received, and not while the consumer is taking
\* from that slot; the consumer reads only a slot whose write has been
\* published by the head store, and finds there the event accepted with
\* its counter value. So the events received are the events accepted, in
\* order, also after the counters have passed N.
C32_SlotsNeverCollide ==
    /\ [][(p_pc = "write" /\ p_pc' = "st_head") =>
             /\ buffer[BitAnd(p_head, capacity - 1)] = None
             /\ buffer' = [buffer EXCEPT
                              ![BitAnd(p_head, capacity - 1)] = Some(p_ev)]
             /\ p_head = head
             /\ p_head - tail < capacity]_vars
    /\ [][(c_pc = "take" /\ c_pc' = "st_tail") =>
             /\ c_tail = tail
             /\ c_tail < head
             /\ buffer[BitAnd(c_tail, capacity - 1)]
                    = Some(accepted[c_tail + 1])
             /\ c_ev' = Some(accepted[c_tail + 1])
             /\ buffer' = [buffer EXCEPT
                              ![BitAnd(c_tail, capacity - 1)] = None]]_vars
    /\ [](~(/\ p_pc = "write"
            /\ c_pc = "take"
            /\ BitAnd(p_head, capacity - 1) = BitAnd(c_tail, capacity - 1)))
    /\ [](IsPrefixOf(received, accepted))

\* on a bus of two slots the producer has written the third event into
\* slot 0, which held the first, while the consumer is taking the second
\* from slot 1
C32_Witness ==
    /\ capacity = 2
    /\ p_pc = "st_head"
    /\ p_head = 2
    /\ buffer[0] = Some(p_ev)
    /\ c_pc = "take"
    /\ c_tail = 1
    /\ received = <<accepted[1]>>

\* ------------------------------------------------------------------
\* SimulationRuntime::run_simulation on the default driver
\* (vakthund-engine, engine/runtime.rs and engine/default_driver.rs)
\* ------------------------------------------------------------------

\* the largest event_count and max_events of a run
MaxEngEvents == 2

\* Result values
Ok(value) == [tag |-> "Ok", value |-> value]

\* let final_hash = String::new(): the empty string
StringNew == [string |-> ""]

\* DefaultSimulationDriver::next_event for the outcomes of the simulator's
\* draws: Ok(None) once current_event has reached max_events, else
\* current_event += 1 and Ok(simulator.simulate_event(event_id)), which is
\* Ok(None) as well when the loss model drops the event
DriverNextEvent(current, max_events, s, drop, drawn_ms, fault) ==
    IF current >= max_events
    THEN [current |-> current, sim |-> s, ret |-> Ok(None)]
    ELSE LET out == SimulateEvent(s, current, drop, drawn_ms, fault)
         IN  [current |-> current + 1, sim |-> out.sim, ret |-> Ok(out.ret)]

\* DefaultEventProcessor::process: Ok(()) after the first parser that
\* accepts the payload, and Ok(()) when none does
ProcessEvent(event) == Ok(<<>>)

\* the seeds of the driver's simulator: the seed of the simulator's own
\* test, and one from which the first delay of 100 ms takes the clock to
\* the last value of its counter
EngSeeds == {SimSeed, U64Wrap - BaseDelayNs - 1}

\* everything but run_simulation and its driver
outsideEng == <<coreVars, replayVars, valVars, parseVars, procVars, sigVars,
                clockVars, fuzzVars, concAddVars, poolVars, concReplayVars>>

\* the driver is built over a simulator that pushes to no bus
EngInit ==
    /\ BusIs(WithCapacity(1))
    /\ TasksIdle
    /\ SimIdle
    /\ PipeIdle
    /\ ReplayIdle
    /\ ValIdle
    /\ ParseIdle
    /\ ProcIdle
    /\ SigIdle
    /\ ClockIdle
    /\ FuzzIdle
    /\ ConcAddIdle
    /\ PoolIdle
    /\ ConcReplayIdle
    /\ eng_pc = "loop"
    /\ eng_count \in 0..MaxEngEvents
    /\ eng_max_events \in 0..MaxEngEvents
    /\ eng_current = 0
    /\ \E params \in SimParamSet, seed \in EngSeeds :
          eng_sim = RunSimulator([params EXCEPT !.seed = seed], FALSE)
    /\ eng_i = 0
    /\ eng_rets = <<>>
    /\ eng_processed = <<>>
    /\ eng_result = <<>>

\* run_simulation, one iteration of for _i in 0..event_count:
\* match driver.next_event() { Ok(Some(event)) => process_event(&event)?,
\* Ok(None) => break, Err(e) => return Err(e) }
EngIteration ==
    /\ eng_pc = "loop"
    /\ eng_i < eng_count
    /\ \E drop \in ShouldDrop(eng_sim.packet_loss),
          drawn_ms \in JitterDraws(eng_sim.jitter_ms),
          fault \in ChaosRolls(eng_sim.chaos_enabled) :
          LET out == DriverNextEvent(eng_current, eng_max_events, eng_sim,
                                     drop, drawn_ms, fault)
          IN  /\ eng_current' = out.current
              /\ eng_sim' = out.sim
              /\ eng_rets' = Append(eng_rets, out.ret)
              /\ IF out.ret.tag = "Ok" /\ out.ret.value # None
                 THEN /\ eng_processed' =
                             Append(eng_processed, out.ret.value[1])
                      /\ IF ProcessEvent(out.ret.value[1]).tag = "Ok"
                         THEN /\ eng_pc' = "loop"
                              /\ eng_result' = eng_result
                         ELSE /\ eng_pc' = "done"
                              /\ eng_result' =
                                     ProcessEvent(out.ret.value[1])
                 ELSE /\ eng_processed' = eng_processed
                      /\ IF out.ret.tag = "Ok"
                         THEN /\ eng_pc' = "break"
                              /\ eng_result' = eng_result
                         ELSE /\ eng_pc' = "done"
                              /\ eng_result' = out.ret
    /\ eng_i' = eng_i + 1
    /\ UNCHANGED <<eng_count, eng_max_events, outsideEng>>

\* run_simulation, after the loop: Ok(final_hash)
EngReturn ==
    /\ \/ eng_pc = "break"
       \/ eng_pc = "loop" /\ eng_i = eng_count
    /\ eng_pc' = "done"
    /\ eng_result' = Ok(StringNew)
    /\ UNCHANGED <<eng_count, eng_max_events, eng_current, eng_sim, eng_i,
                   eng_rets, eng_processed, outsideEng>>

EngNext ==
    \/ EngIteration
    \/ EngReturn

SpecEng == EngInit /\ [][EngNext]_vars

\* n copies of the DROPPED sentinel
RECURSIVE DroppedTimes(_)
DroppedTimes(n) == IF n = 0 THEN <<>> ELSE Dropped \o DroppedTimes(n - 1)

\* the number of ids a run of event_count n can simulate on a driver of
\* max_events m before the driver is exhausted
IdsOfRun(n, m) == IF n <= m THEN n ELSE m

\* C33: run_simulation(event_count = n) on the default driver simulates
\* all n event ids: a dropped event is skipped and the loop goes on with
\* the next id, so a run in which every event is dropped absorbs n DROPPED
\* sentinels; the loop ends before n only when the driver is exhausted or
\* returns an error.
C33_RunSimulatesAllEventIds ==
    (eng_pc = "done" /\ eng_result.tag = "Ok") =>
        /\ eng_current = IdsOfRun(eng_count, eng_max_events)
        /\ (eng_sim.packet_loss = Probabilistic(100)) =>
               eng_sim.state_hasher =
                   DroppedTimes(IdsOfRun(eng_count, eng_max_events))

\* C34: the string run_simulation returns is the final state hash of the
\* driver's simulator after the run, the value hash validation compares
\* with the expected hash.
C34_ReturnsFinalStateHash ==
    (eng_pc = "done" /\ eng_result.tag = "Ok") =>
        eng_result.value = FinalizeHash(eng_sim.state_hasher)

\* the delays an emitted event can advance the clock by: 100 ms, the
\* latency, and a jitter of 0..jitter_ms milliseconds
TotalDelays(s) ==
    {BaseDelayNs + s.latency_ms * NsPerMs + j * NsPerMs : j \in 0..s.jitter_ms}

\* C35: each emitted event advances the clock by exactly
\* total_delay = 100 ms + latency_ms + j with 0 <= j <= jitter_ms and
\* carries as timestamp the clock value read right after that advance; so
\* the timestamps of successively emitted events never decrease.
C35_EmittedEventAdvancesClock ==
    [][(eng_processed' # eng_processed) =>
          LET event == eng_processed'[Len(eng_processed')]
          IN  /\ eng_sim'.clock - eng_sim.clock \in TotalDelays(eng_sim)
              /\ event.timestamp = ClockNow(eng_sim'.clock)
              /\ (eng_processed # <<>>) =>
                     event.timestamp >=
                         eng_processed[Len(eng_processed)].timestamp]_vars

\* ------------------------------------------------------------------
\* SignatureEngine::pattern_add called by several threads
\* (vakthund-detection, signatures/mod.rs)
\* ------------------------------------------------------------------

AdderThreads == {1, 2}

\* the largest number of pattern_add calls of one thread
MaxAddsPerThread == 2

PatternsWriteLockFreeMutNoLock(readers) == TRUE

\* self.patterns.write() can be acquired: no thread holds a read guard
\* (the write guards of the model are taken and dropped within one step)
PatternsWriteLockFree(readers) == readers = {}

\* the calls of thread t that have returned
ReturnedBy(t) == {k \in 1..Len(ca_returned) : ca_returned[k].thread = t}

\* everything but the engine shared by adding threads
outsideConcAdd == <<coreVars, replayVars, valVars, parseVars, procVars,
                    sigVars, clockVars, fuzzVars, engVars, poolVars,
                    concReplayVars>>

ConcAddInit ==
    /\ BusIs(WithCapacity(1))
    /\ TasksIdle
    /\ SimIdle
    /\ PipeIdle
    /\ ReplayIdle
    /\ ValIdle
    /\ ParseIdle
    /\ ProcIdle
    /\ SigIdle
    /\ ClockIdle
    /\ FuzzIdle
    /\ EngIdle
    /\ PoolIdle
    /\ ConcReplayIdle
    /\ ca_patterns = <<>>
    /\ ca_matcher = None
    /\ ca_readers = {}
    /\ ca_pc = [t \in AdderThreads |-> "idle"]
    /\ ca_pattern = [t \in AdderThreads |-> <<>>]
    /\ ca_built = [t \in AdderThreads |-> None]
    /\ ca_returned = <<>>

\* thread t calls pattern_add(pattern)
ConcAddCall(t) ==
    /\ ca_pc[t] = "idle"
    /\ Cardinality(ReturnedBy(t)) < MaxAddsPerThread
    /\ \E pattern \in SigPatterns :
          ca_pattern' = [ca_pattern EXCEPT ![t] = pattern]
    /\ ca_pc' = [ca_pc EXCEPT ![t] = "push"]
    /\ UNCHANGED <<ca_patterns, ca_matcher, ca_readers, ca_built,
                   ca_returned, outsideConcAdd>>

\* pattern_add: { let mut patterns = self.patterns.write();
\* patterns.push(pattern.to_string()); }
ConcAddPush(t) ==
    /\ ca_pc[t] = "push"
    /\ PatternsWriteLockFree(ca_readers)
    /\ ca_patterns' = PushPattern(ca_patterns, ca_pattern[t])
    /\ ca_pc' = [ca_pc EXCEPT ![t] = "read"]
    /\ UNCHANGED <<ca_matcher, ca_readers, ca_pattern, ca_built,
                   ca_returned, outsideConcAdd>>

\* rebuild_matcher: let patterns = self.patterns.read(); the guard lives to
\* the end of the function
ConcAddReadLock(t) ==
    /\ ca_pc[t] = "read"
    /\ ca_readers' = ca_readers \cup {t}
    /\ ca_pc' = [ca_pc EXCEPT ![t] = "build"]
    /\ UNCHANGED <<ca_patterns, ca_matcher, ca_pattern, ca_built,
                   ca_returned, outsideConcAdd>>

\* rebuild_matcher: AhoCorasickBuilder::new().build(patterns.iter()), and
\* `?` returning PatternError from pattern_add when it fails
ConcAddBuild(t) ==
    /\ ca_pc[t] = "build"
    /\ IF BuildFails(ca_patterns)
       THEN /\ ca_readers' = ca_readers \ {t}
            /\ ca_returned' = Append(ca_returned,
                                 [thread |-> t, pattern |-> ca_pattern[t],
                                  result |-> "Err"])
            /\ ca_pc' = [ca_pc EXCEPT ![t] = "idle"]
            /\ UNCHANGED ca_built
       ELSE /\ ca_built' = [ca_built EXCEPT ![t] = Some(ca_patterns)]
            /\ ca_pc' = [ca_pc EXCEPT ![t] = "store"]
            /\ UNCHANGED <<ca_readers, ca_returned>>
    /\ UNCHANGED <<ca_patterns, ca_matcher, ca_pattern, outsideConcAdd>>

\* rebuild_matcher: *self.matcher.write() = Some(matcher); Ok(()), and the
\* read guard of the patterns is dropped
ConcAddStore(t) ==
    /\ ca_pc[t] = "store"
    /\ ca_matcher' = ca_built[t]
    /\ ca_readers' = ca_readers \ {t}
    /\ ca_returned' = Append(ca_returned,
                         [thread |-> t, pattern |-> ca_pattern[t],
                          result |-> "Ok"])
    /\ ca_pc' = [ca_pc EXCEPT ![t] = "idle"]
    /\ UNCHANGED <<ca_patterns, ca_pattern, ca_built, outsideConcAdd>>

ConcAddNext ==
    \E t \in AdderThreads :
        \/ ConcAddCall(t)
        \/ ConcAddPush(t)
        \/ ConcAddReadLock(t)
        \/ ConcAddBuild(t)
        \/ ConcAddStore(t)

SpecConcAdd == ConcAddInit /\ [][ConcAddNext]_vars

\* every call made has returned, and returned Ok
AllAddsReturnedOk ==
    /\ \A t \in AdderThreads : ca_pc[t] = "idle"
    /\ \A k \in 1..Len(ca_returned) : ca_returned[k].result = "Ok"

\* the number of calls that added pattern
AddsOf(pattern) ==
    Cardinality({k \in 1..Len(ca_returned) :
                    ca_returned[k].pattern = pattern})

\* C36: when several tasks call pattern_add concurrently and all calls
\* return Ok, the automaton installed once they have all returned contains
\* every added pattern, and the index buffer_scan reports for a pattern is
\* that pattern's position in the engine's pattern list.
C36_ConcurrentAddsAllInstalled ==
    AllAddsReturnedOk =>
        /\ ca_returned # <<>> => ca_matcher # None
        /\ ca_matcher # None =>
               /\ Len(ca_matcher[1]) = Len(ca_returned)
               /\ \A pattern \in SigPatterns :
                      Cardinality({i \in 1..Len(ca_matcher[1]) :
                                      ca_matcher[1][i] = pattern})
                          = AddsOf(pattern)
        /\ \A data \in SigBuffers :
               /\ \A m \in ScanWith(ca_matcher, data) :
                      /\ m[1] + 1 \in 1..Len(ca_patterns)
                      /\ PatternEndsAt(ca_patterns[m[1] + 1], data, m[2])
               /\ \A i \in 1..Len(ca_patterns) :
                      Contains(data, ca_patterns[i]) =>
                          (i - 1) \in IndicesOf(ScanWith(ca_matcher, data))

\* both threads have added a pattern, the second pushed before the first
\* stored its automaton, and all calls have returned Ok
C36_Witness ==
    /\ AllAddsReturnedOk
    /\ Len(ca_returned) = 2
    /\ ca_returned[1].thread # ca_returned[2].thread
    /\ ca_returned[1].pattern # ca_returned[2].pattern
    /\ ca_patterns = <<ca_returned[2].pattern, ca_returned[1].pattern>>

\* ------------------------------------------------------------------
\* MemoryPool and PoolPtr (vakthund-core, alloc/pool.rs)
\* ------------------------------------------------------------------

\* the largest capacity of a pool, and the largest number of calls made
\* on it
MaxPoolCapacity == 3

MaxPoolOps == 6

\* AtomicUsize::fetch_add(1) and fetch_sub(1): they wrap around
FetchAdd(count) == (count + 1) % U64Wrap

FetchSub(count) == (count + U64Wrap - 1) % U64Wrap

\* MemoryPool::new: for i in 0..capacity { free_indices.push(i) }
FreeIndicesNew(n) == [i \in 1..n |-> i - 1]

\* a sequence without its element at position k
RemoveAt(seq, k) == SubSeq(seq, 1, k - 1) \o SubSeq(seq, k + 1, Len(seq))

\* PoolPtr::drop: free_indices.push(self.index); allocated_count.fetch_sub(1)
PoolPtrDrop(pool, index) ==
    [free_indices |-> Append(pool.free_indices, index),
     allocated_count |-> FetchSub(pool.allocated_count)]

\* MemoryPool::deallocate(ptr): free_indices.push(ptr.index);
\* allocated_count.fetch_sub(1); and ptr, taken by value, is dropped when
\* the function returns
Deallocate(pool, index) ==
    PoolPtrDrop([free_indices |-> Append(pool.free_indices, index),
                 allocated_count |-> FetchSub(pool.allocated_count)],
                index)

\* the pool's free list and count
ThePool == [free_indices |-> free_indices, allocated_count |-> allocated_count]

\* everything but the memory pool
outsidePool == <<coreVars, replayVars, valVars, parseVars, procVars,
                 sigVars, clockVars, fuzzVars, engVars, concAddVars,
                 concReplayVars>>

PoolInit ==
    /\ BusIs(WithCapacity(1))
    /\ TasksIdle
    /\ SimIdle
    /\ PipeIdle
    /\ ReplayIdle
    /\ ValIdle
    /\ ParseIdle
    /\ ProcIdle
    /\ SigIdle
    /\ ClockIdle
    /\ FuzzIdle
    /\ EngIdle
    /\ ConcAddIdle
    /\ ConcReplayIdle
    /\ pool_capacity \in 1..MaxPoolCapacity
    /\ free_indices = FreeIndicesNew(pool_capacity)
    /\ allocated_count = 0
    /\ live_ptrs = <<>>
    /\ pool_ops = 0
    /\ pool_last = [op |-> "new", live_before |-> 0, result |-> None]

\* allocate(): pop an index of the free list, or None when it is empty
PoolAllocate ==
    /\ pool_ops < MaxPoolOps
    /\ IF free_indices # <<>>
       THEN LET index == free_indices[Len(free_indices)]
            IN  /\ free_indices' = SubSeq(free_indices, 1,
                                          Len(free_indices) - 1)
                /\ allocated_count' = FetchAdd(allocated_count)
                /\ live_ptrs' = Append(live_ptrs, index)
                /\ pool_last' = [op |-> "allocate",
                                 live_before |-> Len(live_ptrs),
                                 result |-> Some(index)]
       ELSE /\ pool_last' = [op |-> "allocate",
                             live_before |-> Len(live_ptrs),
                             result |-> None]
            /\ UNCHANGED <<free_indices, allocated_count, live_ptrs>>
    /\ pool_ops' = pool_ops + 1
    /\ UNCHANGED <<pool_capacity, outsidePool>>

\* a live PoolPtr goes out of scope
PoolDropPtr ==
    /\ pool_ops < MaxPoolOps
    /\ \E k \in 1..Len(live_ptrs) :
          LET after == PoolPtrDrop(ThePool, live_ptrs[k])
          IN  /\ free_indices' = after.free_indices
              /\ allocated_count' = after.allocated_count
              /\ live_ptrs' = RemoveAt(live_ptrs, k)
    /\ pool_last' = [op |-> "drop", live_before |-> Len(live_ptrs),
                     result |-> None]
    /\ pool_ops' = pool_ops + 1
    /\ UNCHANGED <<pool_capacity, outsidePool>>

\* deallocate(ptr) with a live PoolPtr of this pool
PoolDeallocate ==
    /\ pool_ops < MaxPoolOps
    /\ \E k \in 1..Len(live_ptrs) :
          LET after == Deallocate(ThePool, live_ptrs[k])
          IN  /\ free_indices' = after.free_indices
              /\ allocated_count' = after.allocated_count
              /\ live_ptrs' = RemoveAt(live_ptrs, k)
    /\ pool_last' = [op |-> "deallocate", live_before |-> Len(live_ptrs),
                     result |-> None]
    /\ pool_ops' = pool_ops + 1
    /\ UNCHANGED <<pool_capacity, outsidePool>>

PoolNext ==
    \/ PoolAllocate
    \/ PoolDropPtr
    \/ PoolDeallocate

SpecPool == PoolInit /\ [][PoolNext]_vars

\* no element occurs twice in the sequence
NoDuplicates(seq) ==
    \A i, j \in 1..Len(seq) : (seq[i] = seq[j]) => (i = j)

\* C37: after any sequence of allocate, PoolPtr drop and deallocate calls
\* on a MemoryPool, no slot index is held by two live PoolPtrs or listed
\* twice in the free list, allocated_count is the number of live PoolPtrs,
\* and allocate returns None exactly when capacity pointers are live.
C37_PoolSlotsHeldOnce ==
    /\ NoDuplicates(live_ptrs)
    /\ NoDuplicates(free_indices)
    /\ allocated_count = Len(live_ptrs)
    /\ (pool_last.op = "allocate") =>
           ((pool_last.result = None)
               <=> (pool_last.live_before = pool_capacity))

\* decode_remaining_length(input) from the byte at offset i on: some
\* `value += u32::from(byte_val & 0x7F) * multiplier` it executes has a
\* product or a sum above u32::MAX
RECURSIVE ExceedsU32From(_, _, _, _)
ExceedsU32From(input, i, multiplier, value) ==
    IF i >= Len(input) THEN FALSE
    ELSE LET byte_val == input[i + 1]
             low7 == byte_val % 128
         IN  IF AddMulOverflowsU32(value, low7, multiplier) THEN TRUE
             ELSE IF multiplier > 128 * 128 * 128 \/ byte_val < 128
             THEN FALSE
             ELSE ExceedsU32From(input, i + 1, multiplier * 128,
                                 value + low7 * multiplier)

\* C38: for every input the arithmetic of decode_remaining_length stays
\* within u32: neither a term (byte & 0x7F) * multiplier nor the
\* accumulated value exceeds 2^32 - 1, also when a fifth length byte
\* follows four bytes with the continuation bit set. In a build that
\* checks overflow the call therefore never panics.
C38_RemainingLengthStaysWithinU32 ==
    (Returned("mqtt") /\ Len(pr_input) >= 2) =>
        /\ ~ExceedsU32From(Tail(pr_input), 0, 1, 0)
        /\ pr_result[1].tag # "Panic"

\* ------------------------------------------------------------------
\* ReplayEngine::next_event called through clones
\* (vakthund-simulator, replay.rs)
\* ------------------------------------------------------------------

ReplayCallers == {1, 2}

\* the largest number of next_event calls of one task, and the longest
\* scenario they replay
MaxCallsPerCaller == 2

MaxSharedScenarioLen == 2

SharedScenarios ==
    {scenario \in ScenarioSet :
        /\ Len(scenario.events) <= MaxSharedScenarioLen
        /\ scenario.seed = 123
        /\ scenario.expected_hash = FinalizeHash(<<>>)}

PositionFetchAddMutLoad(position) == position

\* self.position.fetch_add(1, Ordering::Relaxed): the shared counter
\* afterwards
PositionFetchAdd(position) == position + 1

\* the calls of task c that have returned
CallsOf(c) == {k \in 1..Len(cr_log) : cr_log[k].caller = c}

\* everything but the replay engine shared by tasks
outsideConcReplay == <<coreVars, replayVars, valVars, parseVars, procVars,
                       sigVars, clockVars, fuzzVars, engVars, concAddVars,
                       poolVars>>

\* ReplayEngine::new(scenario, VirtualClock::new(scenario.seed)), cloned
\* for every task
ConcReplayInit ==
    /\ BusIs(WithCapacity(1))
    /\ TasksIdle
    /\ SimIdle
    /\ PipeIdle
    /\ ReplayIdle
    /\ ValIdle
    /\ ParseIdle
    /\ ProcIdle
    /\ SigIdle
    /\ ClockIdle
    /\ FuzzIdle
    /\ EngIdle
    /\ ConcAddIdle
    /\ PoolIdle
    /\ cr_scenario \in SharedScenarios
    /\ cr_position = 0
    /\ cr_clock = ClockNew(cr_scenario.seed)
    /\ cr_pc = [c \in ReplayCallers |-> "idle"]
    /\ cr_pos = [c \in ReplayCallers |-> 0]
    /\ cr_log = <<>>

\* next_event: let pos = self.position.fetch_add(1, Ordering::Relaxed)
ConcReplayFetchAdd(c) ==
    /\ cr_pc[c] = "idle"
    /\ Cardinality(CallsOf(c)) < MaxCallsPerCaller
    /\ cr_pos' = [cr_pos EXCEPT ![c] = cr_position]
    /\ cr_position' = PositionFetchAdd(cr_position)
    /\ cr_pc' = [cr_pc EXCEPT ![c] = "match"]
    /\ UNCHANGED <<cr_scenario, cr_clock, cr_log, outsideConcReplay>>

\* next_event: self.scenario.events.get(pos)?, the match on the entry with
\* its clock.advance, and the return
ConcReplayMatch(c) ==
    /\ cr_pc[c] = "match"
    /\ LET out == NextEventAt(cr_scenario, cr_pos[c])
       IN  /\ cr_clock' = ClockAdvance(cr_clock, out.advance)
           /\ cr_log' = Append(cr_log,
                           [caller |-> c, pos |-> cr_pos[c],
                            ret |-> out.ret, clock_before |-> cr_clock,
                            clock_after |-> ClockAdvance(cr_clock,
                                                         out.advance)])
    /\ cr_pc' = [cr_pc EXCEPT ![c] = "idle"]
    /\ UNCHANGED <<cr_scenario, cr_position, cr_pos, outsideConcReplay>>

ConcReplayNext ==
    \E c \in ReplayCallers :
        \/ ConcReplayFetchAdd(c)
        \/ ConcReplayMatch(c)

SpecConcReplay == ConcReplayInit /\ [][ConcReplayNext]_vars

\* the delay of the scenario entry at position pos (0 for the entries
\* that carry none)
DelayOfEntry(scenario, pos) ==
    LET entry == scenario.events[pos + 1]
    IN  IF entry.kind \in {"NetworkEvent", "NetworkDelay"}
        THEN entry.delay_ns ELSE 0

\* the sum of the delays of the entries at the first n positions that are
\* in taken
RECURSIVE DelaysOfTaken(_, _, _)
DelaysOfTaken(scenario, taken, n) ==
    IF n = 0 THEN 0
    ELSE DelaysOfTaken(scenario, taken, n - 1)
         + (IF (n - 1) \in taken THEN DelayOfEntry(scenario, n - 1) ELSE 0)

\* C39: when clones of one ReplayEngine call next_event concurrently,
\* each scenario entry is returned to at most one caller and its delay is
\* added to the clock at most once; every call made after the entries are
\* exhausted returns None and leaves the clock unchanged.
C39_EntriesReplayedAtMostOnce ==
    /\ \A k1, k2 \in 1..Len(cr_log) :
           (cr_log[k1].pos = cr_log[k2].pos) => (k1 = k2)
    /\ \A c1, c2 \in ReplayCallers :
           (cr_pc[c1] = "match" /\ cr_pc[c2] = "match"
                /\ cr_pos[c1] = cr_pos[c2]) => (c1 = c2)
    /\ \A k \in 1..Len(cr_log) : \A c \in ReplayCallers :
           (cr_pc[c] = "match") => (cr_pos[c] # cr_log[k].pos)
    /\ \A k \in 1..Len(cr_log) :
           IF cr_log[k].pos < Len(cr_scenario.events)
           THEN /\ cr_log[k].ret # None =>
                      /\ cr_scenario.events[cr_log[k].pos + 1].kind
                             = "NetworkEvent"
                      /\ cr_log[k].ret
                             = cr_scenario.events[cr_log[k].pos + 1].event
                /\ cr_log[k].clock_after =
                       ClockAdvance(cr_log[k].clock_before,
                                    DelayOfEntry(cr_scenario,
                                                 cr_log[k].pos))
           ELSE /\ cr_log[k].ret = None
                /\ cr_log[k].clock_after = cr_log[k].clock_before
    /\ cr_clock =
           ClockAdvance(ClockNew(cr_scenario.seed),
                        DelaysOfTaken(cr_scenario,
                                      {cr_log[k].pos : k \in 1..Len(cr_log)},
                                      Len(cr_scenario.events)))

\* both tasks have taken an event entry each, the one at the later
\* position returning first, and a call made after that has returned None
\* with the clock unchanged
C39_Witness ==
    /\ Len(cr_log) >= 3
    /\ cr_log[1].caller # cr_log[2].caller
    /\ cr_log[1].pos = 1
    /\ cr_log[2].pos = 0
    /\ cr_log[1].ret # None
    /\ cr_log[2].ret # None
    /\ cr_log[3].pos >= Len(cr_scenario.events)
    /\ cr_log[3].ret = None
    /\ cr_clock = ClockNew(cr_scenario.seed) + 3

====
